---- MODULE Spec2Model ----
(***************************************************************************)
(* A model of the quality classifier (src/src/data_cleaner.py,             *)
(* HealthDataCleaner) and of the correlation engine                        *)
(* (src/src/correlation_engine.py, CorrelationEngine) of the wearables     *)
(* health-data pipeline.                                                   *)
(*                                                                         *)
(* Arithmetic is exact: the code's floating-point quantities are kept as   *)
(* scaled integers (a quartile as 4*Q, a z-score test squared, a daily     *)
(* mean as Scale*mean), so a comparison in the model is the comparison the *)
(* code makes up to floating-point rounding.                               *)
(***************************************************************************)
EXTENDS Integers, Sequences, FiniteSets, TLC

VARIABLES
    pc,              \* position of the running call
    metric_type,     \* cleaner: the metric of the participant+metric list
    raw,             \* cleaner: the record list as handed to the pipeline
    records,         \* cleaner: the list _clean_participant_metric_data works on
    cleaning_stats,  \* cleaner: self.cleaning_stats[metric_type]
    engine,          \* engine: the attributes __init__ has set on self
    data,            \* engine: the argument of the call (records, collection)
    todo,            \* engine: the participants process has still to visit
    daily_df,        \* engine: the daily table the call works on
    results,         \* engine: what the call has built or returned
    raised           \* engine: the exception that left the call, if any

cleanerVars == <<metric_type, raw, records, cleaning_stats>>
engineVars == <<engine, data, todo, daily_df, results, raised>>
vars == <<pc, cleanerVars, engineVars>>

----------------------------------------------------------------------------
(* The bounds of the inputs *)

\* Cleaner: the longest list with repeated records, the lengths of the
\* lists that reach an outlier pass, the longest list of range-end records.
MaxDupLen == 3
MinOutlierLen == 5
MaxOutlierLen == 6
MaxRangeLen == 1

\* Cleaner: the free records of a collection handed to process.
MaxCleanLen == 2

\* Engine: the longest free record list of one participant, the days of a
\* participant's regular history, and the longest free list of a
\* participant in a collection.
MaxAnalyzeLen == 3
HistoryDays == 7
MaxProcessLen == 1

\* Engine: the days of a table of metric pairs; the baseline and free days
\* of a table with anomalies.
MaxPairDays == 7
BaselineDays == 9
MaxFreeDays == 7
MaxBoundaryCells == 3

\* Engine: the window assigned to an engine, and the rows of the tables a
\* rolling analysis is run on.
AssignedWindow == 7
MaxRollingRows == 13

\* Engine: the longest list of rolling coefficients a trend is taken of.
MaxTrendLen == 4

\* Cleaner: the free records of a collection that is run beside an edited
\* copy of itself, and the records of a collection that is cleaned twice.
MaxEditedLen == 1
MaxRerunLen == 6

----------------------------------------------------------------------------
(* Values shared by both components *)

\* An optional number: None, or Some(v) holding v.
None == <<>>
Some(v) == <<v>>
ValueOf(o) == o[1]

GOOD == "good"
OUTLIER == "outlier"
MISSING == "missing"
INVALID == "invalid"
DUPLICATE == "duplicate"

QualityFlags == {GOOD, OUTLIER, MISSING, INVALID, DUPLICATE}

MetricTypes == {"bp", "sleep", "steps", "hr", "spo2", "temp"}

Abs(x) == IF x < 0 THEN -x ELSE x

RECURSIVE SumSeq(_)
SumSeq(s) == IF s = <<>> THEN 0 ELSE Head(s) + SumSeq(Tail(s))

RECURSIVE SumSquares(_)
SumSquares(s) == IF s = <<>> THEN 0 ELSE Head(s) * Head(s) + SumSquares(Tail(s))

\* ps, a list of <<key, element>> pairs in ascending key order, with p
\* inserted after the last pair whose key is <= p's key.
RECURSIVE InsertPair(_, _)
InsertPair(ps, p) ==
    IF ps = <<>> THEN <<p>>
    ELSE IF Head(ps)[1] <= p[1]
         THEN <<Head(ps)>> \o InsertPair(Tail(ps), p)
         ELSE <<p>> \o ps

RECURSIVE SortPairs(_)
SortPairs(ps) ==
    IF ps = <<>> THEN <<>>
    ELSE InsertPair(SortPairs(SubSeq(ps, 1, Len(ps) - 1)), ps[Len(ps)])

\* A list of numbers in ascending order.
SortValues(values) ==
    LET sorted == SortPairs([i \in 1..Len(values) |-> <<values[i], values[i]>>])
    IN  [i \in 1..Len(values) |-> sorted[i][2]]

\* 4 * (the k-th quartile of values), k = 1 for the 25th and k = 3 for the
\* 75th percentile, by linear interpolation between the two closest ranks:
\* the rank is k*(n-1)/4, counted from 0.
Quartile4Sorted(s, k) ==
    LET n == Len(s)
        i == (k * (n - 1)) \div 4
        r == (k * (n - 1)) % 4
    IN  IF r = 0 THEN 4 * s[i + 1]
        ELSE 4 * s[i + 1] + r * (s[i + 2] - s[i + 1])

Quartile4(values, k) == Quartile4Sorted(SortValues(values), k)

----------------------------------------------------------------------------
(* HealthDataCleaner *)

\* VALIDATION_RANGES: the range of the primary value of each metric.
VALIDATION_RANGES ==
    [bp    |-> [lo |-> 80, hi |-> 200],
     sleep |-> [lo |-> 0,  hi |-> 24],
     steps |-> [lo |-> 0,  hi |-> 50000],
     hr    |-> [lo |-> 30, hi |-> 220],
     spo2  |-> [lo |-> 80, hi |-> 100],
     temp  |-> [lo |-> 90, hi |-> 105]]

\* VALIDATION_RANGES['bp']['diastolic'].
DIASTOLIC_RANGE == [lo |-> 50, hi |-> 130]

\* OUTLIER_PARAMS, doubled to stay in the integers: z2 = 2 * z_threshold,
\* iqr2 = 2 * iqr_factor.
OUTLIER_PARAMS ==
    [bp    |-> [z2 |-> 6, iqr2 |-> 5],
     sleep |-> [z2 |-> 5, iqr2 |-> 4],
     steps |-> [z2 |-> 6, iqr2 |-> 6],
     hr    |-> [z2 |-> 5, iqr2 |-> 4],
     spo2  |-> [z2 |-> 4, iqr2 |-> 3],
     temp  |-> [z2 |-> 4, iqr2 |-> 3]]

\* The minimum number of samples of an outlier pass.
MIN_OUTLIER_SAMPLES == 5

\* float('nan') as a primary value: an integer that no reading takes.
NAN_FLOAT == -1000000

\* A range test that excludes the two ends.
InRangeExclusive(range, v) == range.lo < v /\ v < range.hi

\* lo <= v <= hi; a comparison with nan is false.
InRange(range, v) == v # NAN_FLOAT /\ range.lo <= v /\ v <= range.hi

\* Python's truth value of an optional number: None and 0 are false.
Truthy(o) == o # None /\ ValueOf(o) # 0

WithFlag(r, flag) == [r EXCEPT !.quality_flag = flag]

\* A key that leaves the secondary value out.
DuplicateKeyWithoutValue2(r) == <<<<"iso", r.datetime>>, r.value_1>>

\* The key of a record in _remove_duplicates. isoformat() renders the
\* instant as text, one text per instant. Every nan the loader makes is a
\* float object of its own, and a tuple holding one equals no tuple
\* holding another.
DuplicateKey(r) ==
    <<<<"iso", r.datetime>>,
      IF r.value_1 = NAN_FLOAT THEN <<"nan", r.id>> ELSE <<r.value_1>>,
      r.value_2>>

\* _remove_duplicates: the loop over the records, seen being the keys met.
RECURSIVE RemoveDuplicatesLoop(_, _)
RemoveDuplicatesLoop(rs, seen) ==
    IF rs = <<>> THEN <<>>
    ELSE LET record == Head(rs)
             key == DuplicateKey(record)
         IN  IF key \notin seen
             THEN <<record>> \o RemoveDuplicatesLoop(Tail(rs), seen \cup {key})
             ELSE <<WithFlag(record, DUPLICATE)>>
                      \o RemoveDuplicatesLoop(Tail(rs), seen)

_remove_duplicates(rs) == RemoveDuplicatesLoop(rs, {})

\* records.sort(key=lambda x: x.datetime): ascending and stable.
SortByDatetime(rs) ==
    LET sorted == SortPairs([i \in 1..Len(rs) |-> <<rs[i].datetime, rs[i]>>])
    IN  [i \in 1..Len(rs) |-> sorted[i][2]]

\* The flag _apply_validation_rules leaves on one record.
ValidatedFlag(record, metric) ==
    LET range == VALIDATION_RANGES[metric]
    IN  IF record.quality_flag # GOOD THEN record.quality_flag
        ELSE IF metric = "bp"
        THEN IF ~InRange(range, record.value_1) THEN INVALID
             ELSE IF Truthy(record.value_2)
                     /\ ~InRange(DIASTOLIC_RANGE, ValueOf(record.value_2))
             THEN INVALID
             ELSE IF Truthy(record.value_2)
                     /\ record.value_1 <= ValueOf(record.value_2) THEN INVALID
             ELSE GOOD
        ELSE IF metric = "steps"
        THEN IF ~InRange(range, record.value_1) \/ record.value_1 < 0
             THEN INVALID ELSE GOOD
        ELSE IF ~InRange(range, record.value_1) THEN INVALID ELSE GOOD

_apply_validation_rules(rs, metric) ==
    [i \in 1..Len(rs) |-> WithFlag(rs[i], ValidatedFlag(rs[i], metric))]

\* |zscore(values)[i]| > z_threshold, with the population deviation
\* (ddof = 0): 4*(n*x - S)^2 > z2^2 * (n*SS - S^2). A series without spread
\* has no z-score (nan), which exceeds nothing.
ZScoreExceeds(values, i, z2) ==
    LET n == Len(values)
        S == SumSeq(values)
        SS == SumSquares(values)
        d == n * values[i] - S
    IN  4 * d * d > z2 * z2 * (n * SS - S * S)

\* An IQR test that looks above Q3 only.
IQRExceedsAboveOnly(values, i, iqr2) ==
    LET Q1 == Quartile4(values, 1)
        Q3 == Quartile4(values, 3)
    IN  8 * values[i] > 2 * Q3 + iqr2 * (Q3 - Q1)

\* values[i] lies below Q1 - f*IQR or above Q3 + f*IQR; all times 8.
IQRExceeds(values, i, iqr2) ==
    LET Q1 == Quartile4(values, 1)
        Q3 == Quartile4(values, 3)
        IQR == Q3 - Q1
        lower_bound == 2 * Q1 - iqr2 * IQR
        upper_bound == 2 * Q3 + iqr2 * IQR
    IN  8 * values[i] < lower_bound \/ 8 * values[i] > upper_bound

\* _detect_outliers_in_series: the positions (from 1) of the outliers.
_detect_outliers_in_series(values, params) ==
    IF Len(values) < MIN_OUTLIER_SAMPLES THEN {}
    ELSE {i \in 1..Len(values) : ZScoreExceeds(values, i, params.z2)}
         \cup {i \in 1..Len(values) : IQRExceeds(values, i, params.iqr2)}

\* A filter that lets invalid records through.
IsNotDuplicate(r) == r.quality_flag # DUPLICATE

\* r.quality_flag == QualityFlags.GOOD
IsGood(r) == r.quality_flag = GOOD
HasValue2(r) == r.value_2 # None

\* _detect_outliers: the records flagged outlier, by their id.
OutlierIds(rs, metric) ==
    LET good_records == SelectSeq(rs, IsGood)
        values_1 == [i \in 1..Len(good_records) |-> good_records[i].value_1]
        with_2 == SelectSeq(good_records, HasValue2)
        values_2 == [i \in 1..Len(with_2) |-> ValueOf(with_2[i].value_2)]
        params == OUTLIER_PARAMS[metric]
        outliers_1 == _detect_outliers_in_series(values_1, params)
        outliers_2 == IF values_2 # <<>>
                      THEN _detect_outliers_in_series(values_2, params)
                      ELSE {}
    IN  IF Len(good_records) < MIN_OUTLIER_SAMPLES THEN {}
        ELSE {good_records[i].id : i \in
                 {j \in 1..Len(good_records) :
                     \/ j \in outliers_1
                     \/ good_records[j].value_2 # None /\ j \in outliers_2}}

_detect_outliers(rs, metric) ==
    LET ids == OutlierIds(rs, metric)
    IN  [i \in 1..Len(rs) |->
            IF rs[i].id \in ids THEN WithFlag(rs[i], OUTLIER) ELSE rs[i]]

\* value_1 is None or pd.isna(value_1): a primary value is a float, so it
\* is missing when it is nan.
IsMissingValue(v) == v = NAN_FLOAT

_handle_missing_values(rs) ==
    [i \in 1..Len(rs) |->
        IF IsMissingValue(rs[i].value_1) THEN WithFlag(rs[i], MISSING) ELSE rs[i]]

\* The counters of _clean_metric_data before any participant is cleaned.
EmptyStats == [f \in QualityFlags |-> 0]

CountFlag(rs, flag) == Cardinality({i \in 1..Len(rs) : rs[i].quality_flag = flag})

\* Counters that count the good records only.
UpdatedStatsGoodOnly(stats, rs) ==
    [f \in DOMAIN stats |->
        IF f = GOOD THEN stats[f] + CountFlag(rs, f) ELSE stats[f]]

\* for record in records: cleaning_stats[metric][record.quality_flag] += 1
UpdatedStats(stats, rs) ==
    [f \in DOMAIN stats |->
        IF f \in QualityFlags THEN stats[f] + CountFlag(rs, f) ELSE stats[f]]

\* _clean_participant_metric_data: the five steps on one participant's
\* records of one metric.
_clean_participant_metric_data(rs, metric) ==
    _handle_missing_values(
        _detect_outliers(
            _apply_validation_rules(SortByDatetime(_remove_duplicates(rs)), metric),
            metric))

\* HealthDataCollection.get_metric_types and get_metric_data.
get_metric_types(collection) ==
    {collection[i].metric_type : i \in 1..Len(collection)}

get_metric_data(collection, metric) ==
    SelectSeq(collection, LAMBDA r : r.metric_type = metric)

\* set(r.participant_id for r in records)
ParticipantIds(rs) == {rs[i].participant_id : i \in 1..Len(rs)}

\* The orders in which a set may be iterated.
OrdersOf(S) ==
    {s \in [1..Cardinality(S) -> S] :
        \A i, j \in 1..Cardinality(S) : i # j => s[i] # s[j]}

\* A list that hands every participant all records of the metric.
AllRecordsOf(rs, participant_id) == rs

\* The records of the participant and, before them, the first record of
\* the list when it is another participant's.
WithFirstRecord(rs, participant_id) ==
    SelectSeq(rs, LAMBDA r : r.participant_id = participant_id \/ r.id = rs[1].id)

\* [r for r in records if r.participant_id == participant_id]
ParticipantRecords(rs, participant_id) ==
    SelectSeq(rs, LAMBDA r : r.participant_id = participant_id)

\* self.cleaning_stats[metric_type] as _clean_metric_data initialises it.
InitialStats(rs) ==
    [f \in QualityFlags \cup {"total_records"} |->
        IF f = "total_records" THEN Len(rs) ELSE 0]

\* The loop of _clean_metric_data over the participants, in the order the
\* set gives them; acc holds cleaned_records and the counters so far.
RECURSIVE CleanParticipants(_, _, _, _)
CleanParticipants(rs, metric, participants, acc) ==
    IF participants = <<>> THEN acc
    ELSE CleanParticipants(rs, metric, Tail(participants),
             [cleaned_records |->
                  acc.cleaned_records
                      \o _clean_participant_metric_data(
                             ParticipantRecords(rs, Head(participants)), metric),
              stats |->
                  UpdatedStats(acc.stats,
                      _clean_participant_metric_data(
                          ParticipantRecords(rs, Head(participants)), metric))])

\* _clean_metric_data on the non-empty records of one metric.
_clean_metric_data(rs, metric, participants) ==
    CleanParticipants(rs, metric, participants,
        [cleaned_records |-> <<>>, stats |-> InitialStats(rs)])

----------------------------------------------------------------------------
(* CorrelationEngine *)

\* CORRELATION_PAIRS, in the order of the class attribute.
CORRELATION_PAIRS ==
    << <<"steps", "sleep">>, <<"steps", "hr">>, <<"steps", "bp">>,
       <<"steps", "temp">>, <<"steps", "spo2">>, <<"sleep", "hr">>,
       <<"sleep", "temp">>, <<"sleep", "spo2">>, <<"sleep", "bp">>,
       <<"hr", "temp">>, <<"hr", "bp">>, <<"hr", "spo2">>,
       <<"temp", "spo2">>, <<"temp", "bp">>, <<"spo2", "bp">> >>

DEFAULT_MIN_DAYS == 7
MIN_PAIR_DAYS == 5
ROLLING_EXTRA_DAYS == 5
MIN_WINDOW_DAYS == 7
MIN_ANOMALY_VALUES == 7
RECOVERY_LOOKAHEAD_DAYS == 7

\* 2 * 2.0 and 2 * 1.5: the IQR factors of the anomaly bounds and of the
\* recovery band, doubled to stay in the integers.
ANOMALY_IQR_FACTOR2 == 4
RECOVERY_IQR_FACTOR2 == 3

\* CorrelationEngine(): the attributes __init__ sets with no keyword
\* arguments. The assignment of rolling_window stands after the return of
\* analyze_deviations and is never executed, so the attribute is not set.
DefaultEngine == [min_days |-> DEFAULT_MIN_DAYS]

HasAttr(self, name) == name \in DOMAIN self

\* An engine on which the caller has assigned rolling_window.
AssignedEngine ==
    [min_days |-> DEFAULT_MIN_DAYS, rolling_window |-> AssignedWindow]

NoException == "none"
AttributeError == "AttributeError"

\* The instants of one day, and record.datetime.date().
SlotsPerDay == 2
DateOf(t) == t \div SlotsPerDay

\* A daily value is kept as Scale times its value, Scale being a multiple
\* of every possible number of same-day readings, so that a mean stays an
\* integer.
RECURSIVE Gcd(_, _)
Gcd(a, b) == IF b = 0 THEN a ELSE Gcd(b, a % b)

RECURSIVE LcmUpTo(_)
LcmUpTo(n) == IF n <= 1 THEN 1 ELSE (LcmUpTo(n - 1) * n) \div Gcd(LcmUpTo(n - 1), n)

\* The elements of a set of numbers in ascending order.
RECURSIVE SortedSeqOf(_)
SortedSeqOf(S) ==
    IF S = {} THEN <<>>
    ELSE LET x == CHOOSE y \in S : \A z \in S : y <= z
         IN  <<x>> \o SortedSeqOf(S \ {x})

SeqToSet(s) == {s[i] : i \in 1..Len(s)}

\* pd.DataFrame(): no rows, no columns.
EmptyFrame == [index |-> <<>>, columns |-> {}, cell |-> <<>>]

\* The local daily_df before it is assigned.
NoFrame == [unset |-> TRUE]
IsFrame(df) == "index" \in DOMAIN df

\* df.loc[d, m], a missing cell (NaN) being None.
CellOf(df, d, m) == df.cell[d][m]

\* df[m].dropna(): the present values of a column, in index order.
ColumnValues(df, m) ==
    LET present(d) == CellOf(df, d, m) # None
        dates == SelectSeq(df.index, present)
    IN  [i \in 1..Len(dates) |-> ValueOf(CellOf(df, dates[i], m))]

\* Scale for the tables built from records: no day of a list holds more
\* than MaxAnalyzeLen + 1 readings of one metric.
Scale == LcmUpTo(MaxAnalyzeLen + 1)

\* daily_data[date][metric]: the day's readings of the metric, in list
\* order.
DayValues(rs, d, m) ==
    LET on(r) == DateOf(r.datetime) = d /\ r.metric_type = m
    IN  [i \in 1..Len(SelectSeq(rs, on)) |-> SelectSeq(rs, on)[i].value_1]

\* np.mean for every metric, steps included.
DailyMeanOnly(m, values) ==
    IF values = <<>> THEN None
    ELSE Some((Scale * SumSeq(values)) \div Len(values))

\* row[metric]: np.sum for steps, np.mean otherwise; a metric without a
\* reading on the day gets no value.
DailyAggregate(m, values) ==
    IF values = <<>> THEN None
    ELSE IF m = "steps" THEN Some(Scale * SumSeq(values))
    ELSE Some((Scale * SumSeq(values)) \div Len(values))

\* The keys of daily_data: the dates of the records, each once, in the
\* order in which the loop over the records first meets them.
RECURSIVE FirstSeenDates(_, _)
FirstSeenDates(rs, seen) ==
    IF rs = <<>> THEN <<>>
    ELSE IF DateOf(Head(rs).datetime) \in seen
    THEN FirstSeenDates(Tail(rs), seen)
    ELSE <<DateOf(Head(rs).datetime)>>
             \o FirstSeenDates(Tail(rs), seen \cup {DateOf(Head(rs).datetime)})

\* An index left in the order of the rows.
KeepIndexOrder(dates) == dates

\* df.sort_index(inplace=True)
sort_index(dates) == SortValues(dates)

\* _create_daily_dataframe: one row per date with a record, one column per
\* metric with a record, the sum of the day's readings for steps and their
\* mean for every other metric, rows in ascending date order.
_create_daily_dataframe(rs) ==
    LET dates == {DateOf(rs[i].datetime) : i \in 1..Len(rs)}
        metrics == {rs[i].metric_type : i \in 1..Len(rs)}
    IN  IF rs = <<>> THEN EmptyFrame
        ELSE [index |-> sort_index(FirstSeenDates(rs, {})),
              columns |-> metrics,
              cell |-> [d \in dates |-> [m \in metrics |->
                           DailyAggregate(m, DayValues(rs, d, m))]]]

\* The pairs of CORRELATION_PAIRS with both metrics among the columns.
PairsIn(df) ==
    {CORRELATION_PAIRS[i] : i \in
        {j \in 1..Len(CORRELATION_PAIRS) :
            /\ CORRELATION_PAIRS[j][1] \in df.columns
            /\ CORRELATION_PAIRS[j][2] \in df.columns}}

IsConstant(values) == \A i, j \in 1..Len(values) : values[i] = values[j]

\* What the model keeps of a correlation entry: the sample size, and
\* whether pearsonr and spearmanr have a value (neither series constant;
\* scipy returns nan for a constant series and does not raise).
CorrelationEntry(values1, values2) ==
    [n_days |-> Len(values1),
     defined |-> ~IsConstant(values1) /\ ~IsConstant(values2)]

\* f"{metric1}_vs_{metric2}" and f"{metric1}_to_{metric2}_next_day".
DailyKey(pair) == <<pair[1], "_vs_", pair[2]>>
LagKey(pair) == <<pair[1], "_to_", pair[2], "_next_day">>

\* A gate that lets a sample of 4 days through.
TooFewDaysBelowFour(n) == n < MIN_PAIR_DAYS - 1

\* if len(valid_data) < 5: continue
TooFewDays(n) == n < MIN_PAIR_DAYS

\* The dates on which both metrics of the pair are present.
ValidDays(df, pair) ==
    LET both(d) == CellOf(df, d, pair[1]) # None /\ CellOf(df, d, pair[2]) # None
    IN  SelectSeq(df.index, both)

\* _compute_daily_correlations
_compute_daily_correlations(df) ==
    LET kept == {pair \in PairsIn(df) : ~TooFewDays(Len(ValidDays(df, pair)))}
        entry(pair) ==
            LET days == ValidDays(df, pair)
            IN  CorrelationEntry(
                    [i \in 1..Len(days) |-> ValueOf(CellOf(df, days[i], pair[1]))],
                    [i \in 1..Len(days) |-> ValueOf(CellOf(df, days[i], pair[2]))])
    IN  [key \in {DailyKey(pair) : pair \in kept} |->
            entry(CHOOSE pair \in kept : DailyKey(pair) = key)]

\* The rows whose metric1 is present and whose next row has metric2:
\* shift(-1) moves the column up by one row.
LagRows(df, pair) ==
    {i \in 1..(Len(df.index) - 1) :
        /\ CellOf(df, df.index[i], pair[1]) # None
        /\ CellOf(df, df.index[i + 1], pair[2]) # None}

\* _compute_lag_correlations
_compute_lag_correlations(df) ==
    LET kept == {pair \in PairsIn(df) :
                    ~TooFewDays(Cardinality(LagRows(df, pair)))}
        entry(pair) ==
            LET rows == SortedSeqOf(LagRows(df, pair))
            IN  CorrelationEntry(
                    [i \in 1..Len(rows) |->
                        ValueOf(CellOf(df, df.index[rows[i]], pair[1]))],
                    [i \in 1..Len(rows) |->
                        ValueOf(CellOf(df, df.index[rows[i] + 1], pair[2]))])
    IN  [key \in {LagKey(pair) : pair \in kept} |->
            entry(CHOOSE pair \in kept : LagKey(pair) = key)]

\* np.nan in the list of rolling coefficients.
Gap == None

\* pearsonr(values1, values2)[0], kept as the sample it is computed from;
\* nan when a series is constant.
PearsonOf(values1, values2) ==
    IF IsConstant(values1) \/ IsConstant(values2) THEN Gap
    ELSE Some(<<values1, values2>>)

\* daily_df.iloc[i - window : i], rows counted from 1: the window rows
\* that end with row i.
WindowRows(window, i) == (i - window + 1)..i

\* A window position that takes a coefficient from 6 rows.
RollingValueLoose(df, pair, rows) ==
    LET valid == SortedSeqOf({j \in rows :
                    /\ CellOf(df, df.index[j], pair[1]) # None
                    /\ CellOf(df, df.index[j], pair[2]) # None})
    IN  IF Len(valid) < MIN_WINDOW_DAYS - 1 THEN Gap
        ELSE PearsonOf(
                 [k \in 1..Len(valid) |->
                     ValueOf(CellOf(df, df.index[valid[k]], pair[1]))],
                 [k \in 1..Len(valid) |->
                     ValueOf(CellOf(df, df.index[valid[k]], pair[2]))])

\* One window position of _compute_rolling_correlations: the rows of the
\* window that hold both metrics give a coefficient, or a gap when they
\* are fewer than 7.
RollingValue(df, pair, rows) ==
    LET valid == SortedSeqOf({j \in rows :
                    /\ CellOf(df, df.index[j], pair[1]) # None
                    /\ CellOf(df, df.index[j], pair[2]) # None})
    IN  IF Len(valid) < MIN_WINDOW_DAYS THEN Gap
        ELSE PearsonOf(
                 [k \in 1..Len(valid) |->
                     ValueOf(CellOf(df, df.index[valid[k]], pair[1]))],
                 [k \in 1..Len(valid) |->
                     ValueOf(CellOf(df, df.index[valid[k]], pair[2]))])

IsCoefficient(r) == r # Gap

\* The entry of a pair: the list of coefficients and gaps, and the
\* coefficients np.nanmean and np.nanstd are taken over.
RollingEntry(rolling_correlations) ==
    [correlations |-> rolling_correlations,
     mean_over |-> SelectSeq(rolling_correlations, IsCoefficient),
     std_over |-> SelectSeq(rolling_correlations, IsCoefficient)]

\* for i in range(self.rolling_window, len(daily_df)): the list of one
\* pair, i counted from 0 as the code does.
RollingSeries(df, pair, window) ==
    [k \in 1..(Len(df.index) - window) |->
        RollingValue(df, pair, WindowRows(window, window + k - 1))]

\* _compute_rolling_correlations: [raised, value]. Reading
\* self.rolling_window raises AttributeError when the attribute is not set.
_compute_rolling_correlations(self, df) ==
    IF ~HasAttr(self, "rolling_window")
    THEN [raised |-> AttributeError, value |-> <<>>]
    ELSE IF Len(df.index) < self.rolling_window + ROLLING_EXTRA_DAYS
    THEN [raised |-> NoException, value |-> <<>>]
    ELSE LET kept == {pair \in PairsIn(df) :
                         \E k \in 1..(Len(df.index) - self.rolling_window) :
                             RollingSeries(df, pair, self.rolling_window)[k] # Gap}
         IN  [raised |-> NoException,
              value |-> [key \in {DailyKey(pair) : pair \in kept} |->
                            RollingEntry(RollingSeries(df,
                                CHOOSE pair \in kept : DailyKey(pair) = key,
                                self.rolling_window))]]

\* round(num / den * factor): the nearest integer, a tie going to the even
\* one (den > 0). With factor 10 the result counts tenths, with 100
\* hundredths.
RoundScaled(num, den, factor) ==
    LET q == (factor * num) \div den
        r == (factor * num) % den
    IN  IF 2 * r < den THEN q
        ELSE IF 2 * r > den THEN q + 1
        ELSE IF q % 2 = 0 THEN q ELSE q + 1

\* _analyze_correlation_trend reads coefficients counted in thousandths,
\* Some(r) or the gap np.nan. The slope of np.polyfit(x, y, 1) over
\* x = 0 .. n - 1 is PolyfitNum / (PolyfitDen * 1000).
PolyfitNum(y) ==
    LET n == Len(y)
        x == [i \in 1..n |-> i - 1]
    IN  n * SumSeq([i \in 1..n |-> x[i] * y[i]]) - SumSeq(x) * SumSeq(y)

PolyfitDen(n) ==
    LET x == [i \in 1..n |-> i - 1]
    IN  n * SumSquares(x) - SumSeq(x) * SumSeq(x)

\* The limits on the slope, in thousandths per position.
STABLE_SLOPE == 1
TREND_SLOPE == 5
MIN_TREND_VALUES == 3

\* A trend label that takes in the slope 0.005 itself.
TrendOfSlopeInclusive(num, den) ==
    IF Abs(num) < STABLE_SLOPE * den THEN "stable"
    ELSE IF num >= TREND_SLOPE * den THEN "strengthening"
    ELSE IF num <= -TREND_SLOPE * den THEN "weakening"
    ELSE "stable"

\* if abs(slope) < 0.001 ... elif slope > 0.005 ... elif slope < -0.005 ...
\* else, for the slope num / (den * 1000), den > 0.
TrendOfSlope(num, den) ==
    IF Abs(num) < STABLE_SLOPE * den THEN "stable"
    ELSE IF num > TREND_SLOPE * den THEN "strengthening"
    ELSE IF num < -TREND_SLOPE * den THEN "weakening"
    ELSE "stable"

\* _analyze_correlation_trend: slope in ten-thousandths, strength_change
\* in thousandths. np.polyfit does not raise on three or more finite
\* values, so the 'unstable' result of the except branch is never returned.
_analyze_correlation_trend(rolling_correlations) ==
    LET valid == SelectSeq(rolling_correlations, IsCoefficient)
        y == [i \in 1..Len(valid) |-> ValueOf(valid[i])]
        num == PolyfitNum(y)
        den == PolyfitDen(Len(y))
    IN  IF Len(valid) < MIN_TREND_VALUES THEN [trend |-> "insufficient_data"]
        ELSE [trend |-> TrendOfSlope(num, den),
              slope |-> RoundScaled(num, den, 10),
              strength_change |-> RoundScaled(num * Len(y), den, 1)]

\* round(np.median(values), 1), in tenths.
MedianTenths(values) ==
    LET s == SortValues(values)
        n == Len(s)
    IN  IF n % 2 = 1 THEN 10 * s[(n + 1) \div 2]
        ELSE 5 * (s[n \div 2] + s[n \div 2 + 1])

\* values.quantile(0.25) and values.quantile(0.75), times 4.
QuartileBandSorted(s) ==
    [Q1 |-> Quartile4Sorted(s, 1), Q3 |-> Quartile4Sorted(s, 3)]

QuartileBand(values) == QuartileBandSorted(SortValues(values))

\* Q1 - f*IQR < v < Q3 + f*IQR: the ends of the band left out.
WithinBandExclusive(band, v, f2) ==
    /\ 2 * band.Q1 - f2 * (band.Q3 - band.Q1) < 8 * v
    /\ 8 * v < 2 * band.Q3 + f2 * (band.Q3 - band.Q1)

\* Q1 - f*IQR <= v <= Q3 + f*IQR, all times 8 (f2 = 2*f).
WithinBand(band, v, f2) ==
    /\ 2 * band.Q1 - f2 * (band.Q3 - band.Q1) <= 8 * v
    /\ 8 * v <= 2 * band.Q3 + f2 * (band.Q3 - band.Q1)

\* The inner loop of _analyze_recovery_patterns for one anomaly date, from
\* days_after on: the offset of the first later day inside the recovery
\* band, None when the scan ends without one. A date without a row ends
\* the scan, a missing value is passed over. band holds the quartiles of
\* the column's present values, which every turn computes anew.
RECURSIVE RecoveryOffset(_, _, _, _, _)
RecoveryOffset(df, metric, band, anomaly_date, days_after) ==
    IF days_after > RECOVERY_LOOKAHEAD_DAYS THEN None
    ELSE IF anomaly_date + days_after \notin SeqToSet(df.index) THEN None
    ELSE IF CellOf(df, anomaly_date + days_after, metric) = None
    THEN RecoveryOffset(df, metric, band, anomaly_date, days_after + 1)
    ELSE IF WithinBand(band, ValueOf(CellOf(df, anomaly_date + days_after, metric)),
                       RECOVERY_IQR_FACTOR2)
    THEN Some(days_after)
    ELSE RecoveryOffset(df, metric, band, anomaly_date, days_after + 1)

IsSome(o) == o # None

\* The offsets in the order of the anomaly dates, the anomalies that did
\* not recover left out.
RecoveredOffsets(offsets) ==
    [i \in 1..Len(SelectSeq(offsets, IsSome)) |->
        ValueOf(SelectSeq(offsets, IsSome)[i])]

\* recovery_times with every later day inside the band counted, the scan
\* going on after a recovery.
RECURSIVE RecoveryTimesOfEveryDay(_, _, _, _)
RecoveryTimesOfEveryDay(df, metric, band, anomaly_dates) ==
    IF anomaly_dates = <<>> THEN <<>>
    ELSE SortedSeqOf({k \in 1..RECOVERY_LOOKAHEAD_DAYS :
             /\ Head(anomaly_dates) + k \in SeqToSet(df.index)
             /\ CellOf(df, Head(anomaly_dates) + k, metric) # None
             /\ WithinBand(band, ValueOf(CellOf(df, Head(anomaly_dates) + k, metric)),
                           RECOVERY_IQR_FACTOR2)})
         \o RecoveryTimesOfEveryDay(df, metric, band, Tail(anomaly_dates))

\* recovery_times, band holding the quartiles of the column.
RecoveryTimesIn(df, metric, band, anomaly_dates) ==
    RecoveredOffsets(
        [i \in 1..Len(anomaly_dates) |->
            RecoveryOffset(df, metric, band, anomaly_dates[i], 1)])

RecoveryTimes(df, metric, anomaly_dates) ==
    RecoveryTimesIn(df, metric, QuartileBand(ColumnValues(df, metric)),
                    anomaly_dates)

\* The mean taken over all anomalies instead of the recovered ones.
RecoveryAnalysisOverAnomalies(recovery_times, n_anomalies) ==
    IF recovery_times # <<>>
    THEN [mean_recovery_days |->
              Some(RoundScaled(SumSeq(recovery_times), n_anomalies, 10)),
          median_recovery_days |-> Some(MedianTenths(recovery_times)),
          recovery_rate |-> RoundScaled(100 * Len(recovery_times), n_anomalies, 10)]
    ELSE [mean_recovery_days |-> None,
          median_recovery_days |-> None,
          recovery_rate |-> 0]

\* The dict _analyze_recovery_patterns returns; days and rate in tenths.
RecoveryAnalysisOf(recovery_times, n_anomalies) ==
    IF recovery_times # <<>>
    THEN [mean_recovery_days |->
              Some(RoundScaled(SumSeq(recovery_times), Len(recovery_times), 10)),
          median_recovery_days |-> Some(MedianTenths(recovery_times)),
          recovery_rate |-> RoundScaled(100 * Len(recovery_times), n_anomalies, 10)]
    ELSE [mean_recovery_days |-> None,
          median_recovery_days |-> None,
          recovery_rate |-> 0]

_analyze_recovery_patterns(df, metric, anomaly_dates) ==
    RecoveryAnalysisOf(RecoveryTimes(df, metric, anomaly_dates), Len(anomaly_dates))

\* _generate_anomaly_insights, each sentence by its kind.
_generate_anomaly_insights(n_values, anomaly_dates, recovery_analysis) ==
    <<IF 100 * Len(anomaly_dates) > 15 * n_values THEN "frequent"
      ELSE IF 100 * Len(anomaly_dates) > 5 * n_values THEN "occasional"
      ELSE "rare",
      IF recovery_analysis.recovery_rate > 800 THEN "quick"
      ELSE IF recovery_analysis.recovery_rate > 500 THEN "moderate"
      ELSE "slow">>
        \o (IF /\ Len(anomaly_dates) > 1
               /\ 2 * Cardinality({i \in 2..Len(anomaly_dates) :
                          anomaly_dates[i] - anomaly_dates[i - 1] <= 3})
                      > Len(anomaly_dates) - 1
            THEN <<"clustered">> ELSE <<>>)

\* The dates of the column's present values below Q1 - 2.0*IQR or above
\* Q3 + 2.0*IQR, in index order.
AnomalyDatesIn(df, metric, band) ==
    LET anomalous(d) ==
            /\ CellOf(df, d, metric) # None
            /\ ~WithinBand(band, ValueOf(CellOf(df, d, metric)), ANOMALY_IQR_FACTOR2)
    IN  SelectSeq(df.index, anomalous)

AnomalyDates(df, metric) ==
    AnomalyDatesIn(df, metric, QuartileBand(ColumnValues(df, metric)))

\* The columns _analyze_anomalies reports: at least 7 present values and at
\* least one anomaly.
AnomalousColumns(df) ==
    {m \in df.columns :
        IF Len(ColumnValues(df, m)) < MIN_ANOMALY_VALUES THEN FALSE
        ELSE AnomalyDates(df, m) # <<>>}

\* anomalies[metric]. normal_range is in hundredths of a value unit,
\* anomaly_percentage in tenths; scale is the table's value scale.
AnomalyEntry(n_values, band, anomaly_dates, recovery_analysis, scale) ==
    [anomaly_dates |-> anomaly_dates,
     anomaly_count |-> Len(anomaly_dates),
     anomaly_percentage |-> RoundScaled(100 * Len(anomaly_dates), n_values, 10),
     normal_range |->
         [lower |-> RoundScaled(2 * band.Q1 - ANOMALY_IQR_FACTOR2 * (band.Q3 - band.Q1),
                                8 * scale, 100),
          upper |-> RoundScaled(2 * band.Q3 + ANOMALY_IQR_FACTOR2 * (band.Q3 - band.Q1),
                                8 * scale, 100)],
     recovery_analysis |-> recovery_analysis,
     insights |-> _generate_anomaly_insights(n_values, anomaly_dates,
                                             recovery_analysis)]

AnomalyEntryIn(df, metric, band, anomaly_dates, scale) ==
    AnomalyEntry(Len(ColumnValues(df, metric)), band, anomaly_dates,
                 _analyze_recovery_patterns(df, metric, anomaly_dates), scale)

AnomalyEntryWith(df, metric, band, scale) ==
    AnomalyEntryIn(df, metric, band, AnomalyDatesIn(df, metric, band), scale)

AnomalyEntryOf(df, metric, scale) ==
    AnomalyEntryWith(df, metric, QuartileBand(ColumnValues(df, metric)), scale)

\* _analyze_anomalies
_analyze_anomalies(df, scale) ==
    [m \in AnomalousColumns(df) |-> AnomalyEntryOf(df, m, scale)]

\* A filter that lets every record through, whatever its flag.
IsAnyRecord(r) == r.quality_flag \in QualityFlags

\* r.quality_flag == 'good'
IsGoodRecord(r) == r.quality_flag = GOOD

\* The dict literal of _analyze_participant_correlations. Its entries are
\* evaluated in order, so an exception of the rolling analysis leaves the
\* call before the anomalies are analysed.
AnalysisOf(df, rolling) ==
    IF rolling.raised # NoException
    THEN [daily_df |-> df, raised |-> rolling.raised, value |-> <<>>]
    ELSE [daily_df |-> df, raised |-> NoException,
          value |-> [total_days |-> Len(df.index),
                     daily_correlations |-> _compute_daily_correlations(df),
                     lag_correlations |-> _compute_lag_correlations(df),
                     rolling_correlations |-> rolling.value,
                     anomaly_analysis |-> _analyze_anomalies(df, Scale)]]

\* _analyze_participant_correlations from the daily table on.
AnalyzeDailyFrame(self, df) ==
    IF df = EmptyFrame \/ Len(df.index) < self.min_days
    THEN [daily_df |-> df, raised |-> NoException, value |-> <<>>]
    ELSE AnalysisOf(df, _compute_rolling_correlations(self, df))

\* _analyze_participant_correlations: the local daily_df, the exception
\* that leaves the call and the value it returns.
AnalyzeGoodRecords(self, good_records) ==
    IF good_records = <<>>
    THEN [daily_df |-> NoFrame, raised |-> NoException, value |-> <<>>]
    ELSE AnalyzeDailyFrame(self, _create_daily_dataframe(good_records))

_analyze_participant_correlations(self, rs) ==
    AnalyzeGoodRecords(self, SelectSeq(rs, IsGoodRecord))

\* A float is a number of hundredths (a coefficient) or of ten-thousandths
\* (a p-value), Some(x), or nan.
NaN == None

\* abs(x) >= c; a comparison with nan is false.
AbsAtLeast(x, c) == x # NaN /\ Abs(ValueOf(x)) >= c

\* abs(x) > c
AbsAbove(x, c) == x # NaN /\ Abs(ValueOf(x)) > c

\* max(abs(a), abs(b)) as Python computes it: a unless b is greater.
MaxAbs(a, b) ==
    IF a = NaN THEN NaN
    ELSE IF b # NaN /\ Abs(ValueOf(b)) > Abs(ValueOf(a)) THEN Some(Abs(ValueOf(b)))
    ELSE Some(Abs(ValueOf(a)))

\* Confidence levels whose thresholds on the coefficient are exclusive.
ConfidenceLevelExclusive(n_days, correlation) ==
    IF n_days >= 30 /\ AbsAbove(correlation, 50) THEN "solid"
    ELSE IF n_days >= 14 /\ AbsAbove(correlation, 30) THEN "pretty sure"
    ELSE IF AbsAbove(correlation, 20) THEN "might be a thing"
    ELSE "not confident"

\* _get_confidence_level; the coefficient in hundredths.
_get_confidence_level(n_days, correlation) ==
    IF n_days >= 30 /\ AbsAtLeast(correlation, 50) THEN "solid"
    ELSE IF n_days >= 14 /\ AbsAtLeast(correlation, 30) THEN "pretty sure"
    ELSE IF AbsAtLeast(correlation, 20) THEN "might be a thing"
    ELSE "not confident"

\* str.capitalize() on the four strengths.
Capitalize(strength) ==
    CASE strength = "strong" -> "Strong"
      [] strength = "moderate" -> "Moderate"
      [] strength = "weak" -> "Weak"
      [] strength = "very weak" -> "Very weak"

\* The text of an interpretation, given the coefficient and p-value it is
\* made from. A text is the sequence of its parts.
InterpretationOf(r, p) ==
    IF p # NaN /\ ValueOf(p) >= 500
    THEN <<"No significant relationship detected">>
    ELSE <<Capitalize(IF AbsAtLeast(r, 70) THEN "strong"
                      ELSE IF AbsAtLeast(r, 50) THEN "moderate"
                      ELSE IF AbsAtLeast(r, 30) THEN "weak"
                      ELSE "very weak"),
           " ",
           IF r # NaN /\ ValueOf(r) > 0 THEN "positive" ELSE "negative",
           " correlation">>

\* An interpretation that always reads the Pearson coefficient.
InterpretPearsonOnly(pearson_r, pearson_p, spearman_r, spearman_p) ==
    InterpretationOf(pearson_r, pearson_p)

\* _interpret_correlation; p-values in ten-thousandths.
_interpret_correlation(pearson_r, pearson_p, spearman_r, spearman_p) ==
    IF pearson_r # NaN /\ spearman_r # NaN
          /\ Abs(ValueOf(pearson_r)) >= Abs(ValueOf(spearman_r))
    THEN InterpretationOf(pearson_r, pearson_p)
    ELSE InterpretationOf(spearman_r, spearman_p)

\* _interpret_lag_correlation
_interpret_lag_correlation(metric1, metric2, r, p) ==
    IF p # NaN /\ ValueOf(p) >= 500
    THEN <<"No significant next-day effect of ", metric1, " on ", metric2>>
    ELSE <<"Higher ", metric1, " today ",
           IF AbsAtLeast(r, 50) THEN "strongly"
           ELSE IF AbsAtLeast(r, 30) THEN "moderately" ELSE "slightly",
           " ",
           IF r # NaN /\ ValueOf(r) > 0 THEN "increases" ELSE "decreases",
           " ", metric2, " tomorrow">>

\* The engine's variables while no call of the engine runs.
EngineIdle ==
    /\ engine = DefaultEngine
    /\ data = <<>>
    /\ todo = {}
    /\ daily_df = NoFrame
    /\ results = <<>>
    /\ raised = NoException

\* The cleaner's variables while no call of the cleaner runs.
CleanerIdle ==
    /\ metric_type = "hr"
    /\ raw = <<>>
    /\ records = <<>>
    /\ cleaning_stats = EmptyStats

----------------------------------------------------------------------------
(* The record lists the cleaner is run on *)

\* Primary values around both ends of the metric's range.
BoundaryValues(metric) ==
    LET range == VALIDATION_RANGES[metric]
    IN  {range.lo - 1, range.lo, range.hi, range.hi + 1}

\* Secondary values: absent, zero, and for bp around both ends of the
\* diastolic range.
SecondaryValues(metric) ==
    IF metric = "bp"
    THEN {None} \cup {Some(v) : v \in {0, DIASTOLIC_RANGE.lo - 1,
                                        DIASTOLIC_RANGE.lo, DIASTOLIC_RANGE.hi,
                                        DIASTOLIC_RANGE.hi + 1}}
    ELSE {None, Some(0)}

\* A tight cluster (two adjacent values) and one far value, all in range.
ClusterValues ==
    [bp    |-> [near |-> {120, 121}, far |-> 190],
     sleep |-> [near |-> {7, 8},     far |-> 23],
     steps |-> [near |-> {100, 101}, far |-> 500],
     hr    |-> [near |-> {60, 61},   far |-> 200],
     spo2  |-> [near |-> {95, 96},   far |-> 81],
     temp  |-> [near |-> {98, 99},   far |-> 104]]

NewRecord(i, t, v1, v2) ==
    [id |-> i, datetime |-> t, value_1 |-> v1, value_2 |-> v2,
     quality_flag |-> GOOD]

\* Short lists with repeated instants and values, valid and invalid.
DupLists(metric) ==
    LET D == {<<t, v1, v2>> : t \in 1..2,
                              v1 \in {VALIDATION_RANGES[metric].hi,
                                      VALIDATION_RANGES[metric].hi + 1},
                              v2 \in {None, Some(0)}}
    IN  UNION {{[i \in 1..n |-> NewRecord(i, f[i][1], f[i][2], f[i][3])] :
                    f \in [1..n -> D]} : n \in 0..MaxDupLen}

\* Lists of records at the ends of the ranges.
RangeLists(metric) ==
    LET D == {<<t, v1, v2>> : t \in 1..2,
                              v1 \in BoundaryValues(metric),
                              v2 \in SecondaryValues(metric)}
    IN  UNION {{[i \in 1..n |-> NewRecord(i, f[i][1], f[i][2], f[i][3])] :
                    f \in [1..n -> D]} : n \in 1..MaxRangeLen}

\* Lists long enough for an outlier pass: in-range values near each other
\* or far away, at distinct instants in ascending order and, for the
\* shortest lists, in descending order too.
OutlierLists(metric) ==
    LET V == ClusterValues[metric].near \cup {ClusterValues[metric].far}
    IN  UNION {{[i \in 1..n |->
                    NewRecord(i, IF up THEN i ELSE n + 1 - i, f[i], None)] :
                    f \in [1..n -> V],
                    up \in IF n = MinOutlierLen THEN BOOLEAN ELSE {TRUE}} :
               n \in MinOutlierLen..MaxOutlierLen}

InputLists(metric) ==
    DupLists(metric) \cup RangeLists(metric) \cup OutlierLists(metric)

----------------------------------------------------------------------------
(* _clean_participant_metric_data, step by step *)

Init ==
    /\ pc = "start"
    /\ metric_type \in MetricTypes
    /\ raw \in InputLists(metric_type)
    /\ records = raw
    /\ cleaning_stats = EmptyStats
    /\ EngineIdle

\* Step 1
RemoveDuplicates ==
    /\ pc = "start"
    /\ records' = _remove_duplicates(records)
    /\ pc' = "deduplicated"
    /\ UNCHANGED <<metric_type, raw, cleaning_stats, engineVars>>

\* Step 2
SortRecords ==
    /\ pc = "deduplicated"
    /\ records' = SortByDatetime(records)
    /\ pc' = "sorted"
    /\ UNCHANGED <<metric_type, raw, cleaning_stats, engineVars>>

\* Step 3
ApplyValidationRules ==
    /\ pc = "sorted"
    /\ records' = _apply_validation_rules(records, metric_type)
    /\ pc' = "validated"
    /\ UNCHANGED <<metric_type, raw, cleaning_stats, engineVars>>

\* Step 4
DetectOutliers ==
    /\ pc = "validated"
    /\ records' = _detect_outliers(records, metric_type)
    /\ pc' = "outliers_flagged"
    /\ UNCHANGED <<metric_type, raw, cleaning_stats, engineVars>>

\* Step 5 and the update of the counters
HandleMissingValues ==
    /\ pc = "outliers_flagged"
    /\ records' = _handle_missing_values(records)
    /\ cleaning_stats' = UpdatedStats(cleaning_stats, records')
    /\ pc' = "cleaned"
    /\ UNCHANGED <<metric_type, raw, engineVars>>

Next ==
    \/ RemoveDuplicates
    \/ SortRecords
    \/ ApplyValidationRules
    \/ DetectOutliers
    \/ HandleMissingValues

Spec == Init /\ [][Next]_vars

----------------------------------------------------------------------------
(* _clean_participant_metric_data on lists with secondary values, with *)
(* flagged records beside outlier candidates, and with missing values  *)

FlagMetrics == {"bp", "sleep"}

\* Secondary values near each other and far away; all within the
\* diastolic range and below every systolic value of the lists.
SecondaryCluster == {None, Some(80), Some(119)}

\* Lists with one good record more than an outlier pass needs, at
\* ascending instants: primary values near each other but for the last,
\* which may be far; each secondary value absent, near or far.
SecondaryLists(metric) ==
    LET near == CHOOSE v \in ClusterValues[metric].near :
                    \A w \in ClusterValues[metric].near : v <= w
    IN  UNION {{[i \in 1..n |->
                    NewRecord(i, i,
                        IF i = n /\ far THEN ClusterValues[metric].far
                        ELSE near + (i % 2),
                        f[i])] :
                    f \in [1..n -> SecondaryCluster], far \in BOOLEAN} :
               n \in (MinOutlierLen + 1)..MaxOutlierLen}

MixedKinds == {"near", "far", "invalid", "repeat"}

\* The primary value of a kind of record.
MixedValue(metric, kind, i) ==
    IF kind = "far" THEN ClusterValues[metric].far
    ELSE IF kind = "invalid" THEN VALIDATION_RANGES[metric].hi + 1
    ELSE (CHOOSE v \in ClusterValues[metric].near :
              \A w \in ClusterValues[metric].near : v <= w) + (i % 2)

\* Lists around the length an outlier pass needs: three records near each
\* other, then records that are each near the others, far, out of range,
\* or a repetition of the first record.
MixedLists(metric) ==
    UNION {{[i \in 1..n |->
                IF i <= 3 THEN NewRecord(i, i, MixedValue(metric, "near", i), None)
                ELSE IF f[i] = "repeat"
                THEN NewRecord(i, 1, MixedValue(metric, "near", 1), None)
                ELSE NewRecord(i, i, MixedValue(metric, f[i], i), None)] :
                f \in [4..n -> MixedKinds]} :
           n \in MinOutlierLen..MaxOutlierLen}

\* Short lists whose primary values are in range, out of range or nan.
MissingLists(metric) ==
    LET D == {<<t, v1>> : t \in 1..2,
                          v1 \in {VALIDATION_RANGES[metric].hi,
                                  VALIDATION_RANGES[metric].hi + 1, NAN_FLOAT}}
    IN  UNION {{[i \in 1..n |-> NewRecord(i, f[i][1], f[i][2], None)] :
                    f \in [1..n -> D]} : n \in 1..MaxDupLen}

InitFlags ==
    /\ pc = "start"
    /\ metric_type \in FlagMetrics
    /\ raw \in SecondaryLists(metric_type) \cup MixedLists(metric_type)
                  \cup MissingLists(metric_type)
    /\ records = raw
    /\ cleaning_stats = EmptyStats
    /\ EngineIdle

SpecFlags == InitFlags /\ [][Next]_vars

----------------------------------------------------------------------------

(* HealthDataCleaner.process on a collection *)

CleanParticipantIds == {"p1", "p2"}
CleanMetrics == {"hr", "steps"}

CleanRecord(i, p, m, t, v) ==
    [id |-> i, participant_id |-> p, metric_type |-> m, datetime |-> t,
     value_1 |-> v, value_2 |-> None, quality_flag |-> GOOD]

\* What a free record of a collection may be: either participant, either
\* metric, one of two instants, the top of the metric's range or the value
\* above it.
CleanChoices ==
    {<<p, m, t, above>> : p \in CleanParticipantIds, m \in CleanMetrics,
                          t \in 1..2, above \in 0..1}

\* The collections the cleaner is run on: up to MaxCleanLen free records
\* followed by MinOutlierLen hr records of p1 near each other.
CleanCollection(n, f) ==
    [i \in 1..(n + MinOutlierLen) |->
        IF i <= n
        THEN CleanRecord(i, f[i][1], f[i][2], f[i][3],
                         VALIDATION_RANGES[f[i][2]].hi + f[i][4])
        ELSE CleanRecord(i, "p1", "hr", 10 + i, 60 + (i % 2))]

InitClean ==
    /\ pc = "clean"
    /\ metric_type = "hr"
    /\ raw = <<>>
    /\ records = <<>>
    /\ cleaning_stats = <<>>
    /\ engine = DefaultEngine
    /\ \E n \in 0..MaxCleanLen : \E f \in [1..n -> CleanChoices] :
        data = CleanCollection(n, f)
    /\ todo = get_metric_types(data)
    /\ daily_df = NoFrame
    /\ results = <<>>
    /\ raised = NoException

\* One turn of the loop of process: cleaned holds what _clean_metric_data
\* returned and the counters it left in self.cleaning_stats[metric].
MetricCleaned(metric, cleaned) ==
    /\ results' = results \o cleaned.cleaned_records
    /\ cleaning_stats' = (metric :> cleaned.stats) @@ cleaning_stats
    /\ todo' = todo \ {metric}

CleanMetric(metric) ==
    /\ pc = "clean"
    /\ metric \in todo
    /\ \E participants \in OrdersOf(ParticipantIds(get_metric_data(data, metric))) :
        MetricCleaned(metric,
            _clean_metric_data(get_metric_data(data, metric), metric, participants))
    /\ UNCHANGED <<pc, metric_type, raw, records, engine, data, daily_df, raised>>

CleanReturn ==
    /\ pc = "clean"
    /\ todo = {}
    /\ pc' = "clean_returned"
    /\ UNCHANGED <<cleanerVars, engineVars>>

NextClean ==
    \/ \E metric \in MetricTypes : CleanMetric(metric)
    \/ CleanReturn

SpecClean == InitClean /\ [][NextClean]_vars

----------------------------------------------------------------------------
(* DataCleaner.process run a second time *)

\* The second call reads the collection raw and returns records; data and
\* results keep what the first call read and what it returned.
\* What a free record of a collection that is edited, and a record that
\* an edit puts into it, may be: either
\* participant, either metric, the top of the metric's range or the value
\* above it.
EditChoices == {c \in CleanChoices : c[3] = 1}

EditRecord(i, c) ==
    CleanRecord(i, c[1], c[2], c[3], VALIDATION_RANGES[c[2]].hi + c[4])

\* The collections that differ from a collection by one record: a record
\* added before the others, a record left out, or a record replaced.
Edits(collection) ==
    {<<EditRecord(Len(collection) + 1, c)>> \o collection : c \in EditChoices}
    \cup {SelectSeq(collection, LAMBDA r : r.id # i) : i \in 1..Len(collection)}
    \cup {[collection EXCEPT ![i] = EditRecord(i, c)] :
              i \in 1..Len(collection), c \in EditChoices}

InitEdited ==
    /\ pc = "clean"
    /\ metric_type = "hr"
    /\ raw = <<>>
    /\ records = <<>>
    /\ cleaning_stats = <<>>
    /\ engine = DefaultEngine
    /\ \E n \in 0..MaxEditedLen : \E f \in [1..n -> EditChoices] :
        data = CleanCollection(n, f)
    /\ todo = get_metric_types(data)
    /\ daily_df = NoFrame
    /\ results = <<>>
    /\ raised = NoException

\* What a record of a collection that is cleaned twice may be: a value of
\* the cluster, the value beside it, a value further off, one far off, a
\* value above the range, or the instant and value of the record before.
RerunKinds == {"low", "beside", "off", "far", "invalid", "repeat"}

RerunValue(kind) ==
    IF kind = "low" THEN 60
    ELSE IF kind = "beside" THEN 61
    ELSE IF kind = "off" THEN 70
    ELSE IF kind = "far" THEN 100
    ELSE IF kind = "invalid" THEN VALIDATION_RANGES["hr"].hi + 1
    ELSE 60

\* Four hr records of p1 with the value 60 at instants of their own, then
\* the records the kinds say.
RerunCollection(kinds) ==
    [i \in 1..Len(kinds) |->
        CleanRecord(i, "p1", "hr",
                    IF kinds[i] = "repeat" THEN i - 1 ELSE i,
                    RerunValue(kinds[i]))]

InitRerun ==
    /\ pc = "clean"
    /\ metric_type = "hr"
    /\ raw = <<>>
    /\ records = <<>>
    /\ cleaning_stats = <<>>
    /\ engine = DefaultEngine
    /\ \E n \in 5..MaxRerunLen : \E kinds \in [1..n -> RerunKinds] :
        /\ \A i \in 1..4 : kinds[i] = "low"
        /\ data = RerunCollection(kinds)
    /\ todo = get_metric_types(data)
    /\ daily_df = NoFrame
    /\ results = <<>>
    /\ raised = NoException

\* process(edited): a second call, on a collection that differs from the
\* first by one record.
ProcessEdited ==
    /\ pc = "clean_returned"
    /\ raw' \in Edits(data)
    /\ records' = <<>>
    /\ cleaning_stats' = <<>>
    /\ todo' = get_metric_types(raw')
    /\ pc' = "clean_again"
    /\ UNCHANGED <<metric_type, engine, data, daily_df, results, raised>>

\* process(cleaned_collection): a second call, on the collection the first
\* call returned, whose records carry the flags of the first call.
ProcessReturned ==
    /\ pc = "clean_returned"
    /\ raw' = results
    /\ records' = <<>>
    /\ cleaning_stats' = <<>>
    /\ todo' = get_metric_types(results)
    /\ pc' = "clean_again"
    /\ UNCHANGED <<metric_type, engine, data, daily_df, results, raised>>

\* One turn of the loop of the second call.
MetricCleanedAgain(metric, cleaned) ==
    /\ records' = records \o cleaned.cleaned_records
    /\ cleaning_stats' = (metric :> cleaned.stats) @@ cleaning_stats
    /\ todo' = todo \ {metric}

CleanMetricAgain(metric) ==
    /\ pc = "clean_again"
    /\ metric \in todo
    /\ \E participants \in OrdersOf(ParticipantIds(get_metric_data(raw, metric))) :
        MetricCleanedAgain(metric,
            _clean_metric_data(get_metric_data(raw, metric), metric, participants))
    /\ UNCHANGED <<pc, metric_type, raw, engine, data, daily_df, results, raised>>

CleanReturnAgain ==
    /\ pc = "clean_again"
    /\ todo = {}
    /\ pc' = "cleaned_again"
    /\ UNCHANGED <<cleanerVars, engineVars>>

NextEdited ==
    \/ \E metric \in MetricTypes : CleanMetric(metric)
    \/ CleanReturn
    \/ ProcessEdited
    \/ \E metric \in MetricTypes : CleanMetricAgain(metric)
    \/ CleanReturnAgain

SpecEdited == InitEdited /\ [][NextEdited]_vars

NextRerun ==
    \/ \E metric \in MetricTypes : CleanMetric(metric)
    \/ CleanReturn
    \/ ProcessReturned
    \/ \E metric \in MetricTypes : CleanMetricAgain(metric)
    \/ CleanReturnAgain

SpecRerun == InitRerun /\ [][NextRerun]_vars

----------------------------------------------------------------------------

(* The record lists and daily tables the engine is run on *)

Participants == {"p1", "p2", "p3"}

\* HealthDataRecord(...) as the engine reads it.
EngineRecord(p, m, t, v, flag) ==
    [participant_id |-> p, metric_type |-> m, datetime |-> t,
     value_1 |-> v, value_2 |-> None, quality_flag |-> flag]

NonGoodFlags == <<OUTLIER, MISSING, INVALID, DUPLICATE>>

\* The readings of the free records: two step counts, two heart rates.
ReadingValues == [steps |-> <<100, 150>>, hr |-> <<60, 80>>]

\* A free record: its metric, its date, which of the metric's readings it
\* holds and whether it is flagged good.
RecordChoices == {"steps", "hr"} \X {1, 2} \X {1, 2} \X BOOLEAN

\* The i-th record of a list, from its choice: the instant within the day
\* and the non-good flag follow from the position.
ChosenRecord(p, i, c) ==
    EngineRecord(p, c[1], c[2] * SlotsPerDay + ((i - 1) % SlotsPerDay),
                 ReadingValues[c[1]][c[3]],
                 IF c[4] THEN GOOD ELSE NonGoodFlags[((i - 1) % 4) + 1])

\* The list of the records chosen by f.
FreeList(p, f) == [i \in 1..Len(f) |-> ChosenRecord(p, i, f[i])]

\* HistoryDays consecutive days, each with one step count and one heart
\* rate, all flagged with the same flag.
History(p, flag) ==
    [i \in 1..(2 * HistoryDays) |->
        LET d == 2 + (i + 1) \div 2
        IN  IF i % 2 = 1
            THEN EngineRecord(p, "steps", d * SlotsPerDay, 100 * d, flag)
            ELSE EngineRecord(p, "hr", d * SlotsPerDay, 60 + (d % 3), flag)]

\* The first days of a history: records of fewer consecutive days.
ShortHistory(p, flag, days) == SubSeq(History(p, flag), 1, 2 * days)

\* The records of one participant of a collection; the empty list stands
\* for a participant the collection does not hold.
ProcessLists(p) ==
    {[i \in 1..n |-> EngineRecord(p, "hr", SlotsPerDay, 60, f[i])] :
        n \in 0..MaxProcessLen, f \in [1..MaxProcessLen -> {GOOD, OUTLIER}]}
        \cup {History(p, GOOD), History(p, MISSING)}

\* HealthDataCollection, by participant: get_participants() is the domain,
\* get_participant_data(p) the value at p.
Collections ==
    {[p \in {q \in Participants : lists[q] # <<>>} |-> lists[p]] :
        lists \in {f \in [Participants -> UNION {ProcessLists(p) : p \in Participants}] :
                      \A p \in Participants : f[p] \in ProcessLists(p)}}

\* A daily table from its rows: columns are the metrics some row holds.
TableOf(dates, row) ==
    LET columns == {m \in MetricTypes : \E d \in dates : row[d][m] # None}
    IN  [index |-> SortedSeqOf(dates),
         columns |-> columns,
         cell |-> [d \in dates |-> [m \in columns |-> row[d][m]]]]

\* What a day of a pair table holds of steps and hr.
PairKinds == {"both", "steps", "hr", "none"}

\* Tables of up to MaxPairDays consecutive dates with steps and hr as the
\* kinds say, and a sleep value on every date or on none. A date that
\* holds nothing has no row.
PairTable(kinds, withSleep) ==
    LET row == [d \in 1..Len(kinds) |-> [m \in MetricTypes |->
                   IF m = "steps" /\ kinds[d] \in {"both", "steps"} THEN Some(100 * d)
                   ELSE IF m = "hr" /\ kinds[d] \in {"both", "hr"} THEN Some(60 + (d % 3))
                   ELSE IF m = "sleep" /\ withSleep THEN Some(7)
                   ELSE None]]
        dates == {d \in 1..Len(kinds) : \E m \in MetricTypes : row[d][m] # None}
    IN  TableOf(dates, row)

\* What a day after the baseline holds of hr: no row, a row without hr,
\* or one of these values.
KindValue == [below |-> -15, low |-> -10, normal |-> 20, inside |-> 35,
              high |-> 40, above |-> 45]
BoundaryKinds == {"nan", "below", "low", "inside", "high", "above"}
RecoveryKinds == {"absent", "nan", "normal", "above"}

\* b baseline dates with hr 10 on the first half and 20 on the rest,
\* then one date per kind. A row without hr holds a step count.
AnomalyTable(b, kinds) ==
    LET dates == (1..b) \cup {b + j : j \in {i \in 1..Len(kinds) : kinds[i] # "absent"}}
        row == [d \in dates |-> [m \in MetricTypes |->
                   IF d <= b
                   THEN IF m # "hr" THEN None
                        ELSE IF 2 * d <= b + 1 THEN Some(10) ELSE Some(20)
                   ELSE IF kinds[d - b] = "nan"
                   THEN IF m = "steps" THEN Some(1) ELSE None
                   ELSE IF m = "hr" THEN Some(KindValue[kinds[d - b]]) ELSE None]]
    IN  TableOf(dates, row)

----------------------------------------------------------------------------
(* _analyze_participant_correlations on one participant's records *)

InitAnalyze ==
    /\ pc = "analyze"
    /\ CleanerIdle
    /\ engine = DefaultEngine
    /\ \E n \in 0..MaxAnalyzeLen, days \in {0, MIN_PAIR_DAYS, HistoryDays} :
        /\ days > 0 => n <= 1
        /\ \E f \in [1..n -> RecordChoices] :
            data = [p \in {"p1"} |->
                       FreeList(p, f) \o ShortHistory(p, GOOD, days)]
    /\ todo = {}
    /\ daily_df = NoFrame
    /\ results = <<>>
    /\ raised = NoException

\* The whole call: results holds what it returns.
Analyzed(analysis) ==
    /\ daily_df' = analysis.daily_df
    /\ raised' = analysis.raised
    /\ results' = analysis.value
    /\ pc' = IF analysis.raised = NoException THEN "analyzed" ELSE "analyze_raised"

AnalyzeParticipant ==
    /\ pc = "analyze"
    /\ Analyzed(_analyze_participant_correlations(engine, data["p1"]))
    /\ UNCHANGED <<cleanerVars, engine, data, todo>>

NextAnalyze == AnalyzeParticipant

SpecAnalyze == InitAnalyze /\ [][NextAnalyze]_vars

----------------------------------------------------------------------------
(* process on a collection *)

InitProcess ==
    /\ pc = "process"
    /\ CleanerIdle
    /\ engine = DefaultEngine
    /\ data \in Collections
    /\ todo = DOMAIN data
    /\ daily_df = NoFrame
    /\ results = <<>>
    /\ raised = NoException

\* One turn of the loop of process. get_participants() lists a set, so
\* the participants come in any order. An exception of the analysis is not
\* caught: it leaves process, and the local results with it.
Processed(p, participant_results) ==
    /\ daily_df' = participant_results.daily_df
    /\ raised' = participant_results.raised
    /\ IF participant_results.raised # NoException
       THEN /\ pc' = "process_raised"
            /\ results' = <<>>
            /\ todo' = todo
       ELSE /\ pc' = pc
            /\ results' = IF participant_results.value # <<>>
                          THEN [q \in DOMAIN results \cup {p} |->
                                   IF q = p THEN participant_results.value
                                   ELSE results[q]]
                          ELSE results
            /\ todo' = todo \ {p}

ProcessParticipant(p) ==
    /\ pc = "process"
    /\ p \in todo
    /\ Processed(p, _analyze_participant_correlations(engine, data[p]))
    /\ UNCHANGED <<cleanerVars, engine, data>>

\* return results
ProcessReturn ==
    /\ pc = "process"
    /\ todo = {}
    /\ pc' = "process_returned"
    /\ UNCHANGED <<cleanerVars, engineVars>>

NextProcess ==
    \/ \E p \in Participants : ProcessParticipant(p)
    \/ ProcessReturn

SpecProcess == InitProcess /\ [][NextProcess]_vars

----------------------------------------------------------------------------
(* The labels and texts of a correlation entry *)

\* Sample sizes around 14 and 30.
SampleSizes == {5, 13, 14, 29, 30}

\* Coefficients in hundredths, around the thresholds, and nan.
Coefficients ==
    {NaN} \cup {Some(x) : x \in {-100, -70, -69, -50, -49, -30, -29, -20, -19,
                                  0, 19, 20, 29, 30, 49, 50, 69, 70, 100}}
SpearmanCoefficients ==
    {NaN} \cup {Some(x) : x \in {-70, -50, 0, 30, 50, 71}}

\* p-values in ten-thousandths, around 0.05, and nan.
PValues == {NaN} \cup {Some(x) : x \in {0, 499, 500, 10000}}

InitInterpret ==
    /\ pc = "coefficients"
    /\ CleanerIdle
    /\ engine = DefaultEngine
    /\ data \in [n_days : SampleSizes,
                 metric1 : {"steps"}, metric2 : {"sleep"},
                 pearson_r : Coefficients, pearson_p : PValues,
                 spearman_r : SpearmanCoefficients, spearman_p : PValues]
    /\ todo = {}
    /\ daily_df = NoFrame
    /\ results = <<>>
    /\ raised = NoException

\* confidence = self._get_confidence_level(len(valid_data), max(...))
GetConfidenceLevel ==
    /\ pc = "coefficients"
    /\ results' = <<_get_confidence_level(data.n_days,
                        MaxAbs(data.pearson_r, data.spearman_r))>>
    /\ pc' = "confidence"
    /\ UNCHANGED <<cleanerVars, engine, data, todo, daily_df, raised>>

InterpretCorrelation ==
    /\ pc = "coefficients"
    /\ results' = _interpret_correlation(data.pearson_r, data.pearson_p,
                                         data.spearman_r, data.spearman_p)
    /\ pc' = "interpretation"
    /\ UNCHANGED <<cleanerVars, engine, data, todo, daily_df, raised>>

InterpretLagCorrelation ==
    /\ pc = "coefficients"
    /\ results' = _interpret_lag_correlation(data.metric1, data.metric2,
                                             data.pearson_r, data.pearson_p)
    /\ pc' = "lag_interpretation"
    /\ UNCHANGED <<cleanerVars, engine, data, todo, daily_df, raised>>

NextInterpret ==
    \/ GetConfidenceLevel
    \/ InterpretCorrelation
    \/ InterpretLagCorrelation

SpecInterpret == InitInterpret /\ [][NextInterpret]_vars

----------------------------------------------------------------------------

(* The correlation methods on a daily table *)

InitTable ==
    /\ pc = "table"
    /\ CleanerIdle
    /\ engine = DefaultEngine
    /\ data = <<>>
    /\ todo = {}
    /\ \E kinds \in [1..MaxPairDays -> PairKinds], withSleep \in BOOLEAN :
        daily_df = PairTable(kinds, withSleep)
    /\ results = <<>>
    /\ raised = NoException

ComputeDailyCorrelations ==
    /\ pc = "table"
    /\ results' = _compute_daily_correlations(daily_df)
    /\ pc' = "daily_correlations"
    /\ UNCHANGED <<cleanerVars, engine, data, todo, daily_df, raised>>

ComputeLagCorrelations ==
    /\ pc = "table"
    /\ results' = _compute_lag_correlations(daily_df)
    /\ pc' = "lag_correlations"
    /\ UNCHANGED <<cleanerVars, engine, data, todo, daily_df, raised>>

RollingComputed(rolling) ==
    /\ results' = rolling.value
    /\ raised' = rolling.raised
    /\ pc' = IF rolling.raised = NoException
             THEN "rolling_correlations" ELSE "rolling_raised"

ComputeRollingCorrelations ==
    /\ pc = "table"
    /\ RollingComputed(_compute_rolling_correlations(engine, daily_df))
    /\ UNCHANGED <<cleanerVars, engine, data, todo, daily_df>>

NextTable ==
    \/ ComputeDailyCorrelations
    \/ ComputeLagCorrelations
    \/ ComputeRollingCorrelations

SpecTable == InitTable /\ [][NextTable]_vars

----------------------------------------------------------------------------
(* _compute_rolling_correlations on tables long enough for windows *)

\* Tables of consecutive dates: steps on every date, hr on the first five
\* and on the later dates that free says, a constant sleep value on every
\* date or on none.
RollingTable(n, free, withSleep) ==
    PairTable([d \in 1..n |-> IF d <= 5 \/ free[d] THEN "both" ELSE "steps"],
              withSleep)

InitRolling ==
    /\ pc = "table"
    /\ CleanerIdle
    /\ engine \in {DefaultEngine, AssignedEngine}
    /\ data = <<>>
    /\ todo = {}
    /\ \E n \in (AssignedWindow + ROLLING_EXTRA_DAYS - 1)..MaxRollingRows :
        \E free \in [6..n -> BOOLEAN], withSleep \in BOOLEAN :
            daily_df = RollingTable(n, free, withSleep)
    /\ results = <<>>
    /\ raised = NoException

NextRolling == ComputeRollingCorrelations

SpecRolling == InitRolling /\ [][NextRolling]_vars

----------------------------------------------------------------------------
(* _analyze_correlation_trend on lists of rolling coefficients *)

\* Coefficients in thousandths whose differences make slopes below, on
\* and above both limits.
TrendCoefficients == {Gap} \cup {Some(r) : r \in {0, 1, 2, 10, 11}}

InitTrend ==
    /\ pc = "rolling_list"
    /\ CleanerIdle
    /\ engine = DefaultEngine
    /\ \E n \in 0..MaxTrendLen : data \in [1..n -> TrendCoefficients]
    /\ todo = {}
    /\ daily_df = NoFrame
    /\ results = <<>>
    /\ raised = NoException

AnalyzeCorrelationTrend ==
    /\ pc = "rolling_list"
    /\ results' = _analyze_correlation_trend(data)
    /\ pc' = "trend"
    /\ UNCHANGED <<cleanerVars, engine, data, todo, daily_df, raised>>

NextTrend == AnalyzeCorrelationTrend

SpecTrend == InitTrend /\ [][NextTrend]_vars

----------------------------------------------------------------------------

(* _analyze_anomalies on a daily table *)

InitAnomaly ==
    /\ pc = "anomaly_table"
    /\ CleanerIdle
    /\ engine = DefaultEngine
    /\ data = <<>>
    /\ todo = {}
    /\ \/ \E b \in {MIN_ANOMALY_VALUES - 2, MIN_ANOMALY_VALUES - 1},
             n \in 0..MaxBoundaryCells :
             \E kinds \in [1..n -> BoundaryKinds] :
                 daily_df = AnomalyTable(b, kinds)
       \/ \E kinds \in [1..MaxFreeDays -> RecoveryKinds] :
             daily_df = AnomalyTable(BaselineDays, kinds)
    /\ results = <<>>
    /\ raised = NoException

AnalyzeAnomalies ==
    /\ pc = "anomaly_table"
    /\ results' = _analyze_anomalies(daily_df, 1)
    /\ pc' = "anomalies"
    /\ UNCHANGED <<cleanerVars, engine, data, todo, daily_df, raised>>

NextAnomaly == AnalyzeAnomalies

SpecAnomaly == InitAnomaly /\ [][NextAnomaly]_vars

----------------------------------------------------------------------------
(* Properties of the quality classifier *)

SameTuple(a, b) ==
    /\ a.datetime = b.datetime
    /\ a.value_1 = b.value_1
    /\ a.value_2 = b.value_2

\* C1: after _remove_duplicates, a record is flagged duplicate exactly when
\* an earlier record of the input list has the same (timestamp, value_1,
\* value_2); the first of each group and every unique record stay good.
C1_DuplicateRule ==
    pc = "deduplicated" =>
        /\ Len(records) = Len(raw)
        /\ \A i \in 1..Len(raw) :
              /\ records[i].id = raw[i].id
              /\ IF \E j \in 1..(i - 1) : SameTuple(raw[j], raw[i])
                 THEN records[i].quality_flag = DUPLICATE
                 ELSE records[i].quality_flag = GOOD

\* Three identical records and no other: the first good, both later ones
\* duplicate.
C1_Witness ==
    /\ pc = "deduplicated"
    /\ Len(raw) = 3
    /\ SameTuple(raw[1], raw[2]) /\ SameTuple(raw[2], raw[3])
    /\ records[1].quality_flag = GOOD
    /\ records[2].quality_flag = DUPLICATE
    /\ records[3].quality_flag = DUPLICATE

\* The ranges as the specification states them.
StatedRange ==
    [bp    |-> <<80, 200>>,
     sleep |-> <<0, 24>>,
     steps |-> <<0, 50000>>,
     hr    |-> <<30, 220>>,
     spo2  |-> <<80, 100>>,
     temp  |-> <<90, 105>>]

OutsideStatedRange(metric, v) ==
    v < StatedRange[metric][1] \/ v > StatedRange[metric][2]

\* C2: after _apply_validation_rules, a record that entered it good is
\* invalid if and only if its primary value is below the low end or above
\* the high end of its metric's range; for a bp record with a secondary
\* value only the direction "outside, hence invalid" is stated.
C2_RangeBoundaries ==
    pc = "validated" =>
        \A i \in 1..Len(records) :
            LET r == records[i]
            IN  r.quality_flag # DUPLICATE =>
                  /\ OutsideStatedRange(metric_type, r.value_1)
                        => r.quality_flag = INVALID
                  /\ (metric_type # "bp" \/ r.value_2 = None)
                        => (r.quality_flag = INVALID
                               => OutsideStatedRange(metric_type, r.value_1))
                  /\ r.quality_flag \in {INVALID, GOOD}

\* A systolic 200 that stays good beside a systolic 201 that is invalid.
C2_Witness ==
    /\ pc = "validated"
    /\ metric_type = "bp"
    /\ \E i, j \in 1..Len(records) :
          /\ records[i].value_1 = 200 /\ records[i].quality_flag = GOOD
          /\ records[j].value_1 = 201 /\ records[j].quality_flag = INVALID

MaxOf(S) == CHOOSE x \in S : \A y \in S : y <= x
MinOf(S) == CHOOSE x \in S : \A y \in S : x <= y

GoodIds(rs) == {rs[i].id : i \in {j \in 1..Len(rs) : rs[j].quality_flag = GOOD}}
RecordOf(rs, id) == rs[CHOOSE i \in 1..Len(rs) : rs[i].id = id]

\* The good record e holds one extreme value beside a tight cluster: at
\* least 5 good records, none with a secondary value, and e's value is more
\* than ten times farther from every other good value than those values
\* are from each other.
ExtremeBesideCluster(rs, e) ==
    LET others == {RecordOf(rs, id).value_1 : id \in GoodIds(rs) \ {e}}
        spread == MaxOf(others) - MinOf(others)
    IN  /\ e \in GoodIds(rs)
        /\ Cardinality(GoodIds(rs)) >= 5
        /\ \A id \in GoodIds(rs) : RecordOf(rs, id).value_2 = None
        /\ \A v \in others :
              /\ v # RecordOf(rs, e).value_1
              /\ Abs(RecordOf(rs, e).value_1 - v) > 10 * spread

ClusterIsConstant(rs, e) ==
    Cardinality({RecordOf(rs, id).value_1 : id \in GoodIds(rs) \ {e}}) = 1

OutlierPass == pc = "validated" /\ pc' = "outliers_flagged"

\* C3 as stated: the record holding the extreme value is flagged outlier
\* and no other record is.
C3_OnlyTheExtremeIsFlagged ==
    [][OutlierPass =>
         \A e \in GoodIds(records) :
            ExtremeBesideCluster(records, e) =>
               \A i \in 1..Len(records') :
                  (records'[i].quality_flag = OUTLIER) <=> (records'[i].id = e)
      ]_vars

\* C3, amended: the record holding the extreme value is flagged outlier;
\* when the other good values are all equal no other record is flagged.
C3_ExtremeIsFlagged ==
    [][OutlierPass =>
         \A e \in GoodIds(records) :
            ExtremeBesideCluster(records, e) =>
               /\ RecordOf(records', e).quality_flag = OUTLIER
               /\ ClusterIsConstant(records, e) =>
                     \A i \in 1..Len(records') :
                        records'[i].id # e => records'[i].quality_flag = GOOD
      ]_vars

\* Four equal values and one far value: the far one is the only outlier.
C3_Witness ==
    /\ pc = "outliers_flagged"
    /\ Len(records) = 5
    /\ \E e \in 1..5 :
          /\ records[e].quality_flag = OUTLIER
          /\ \A i, j \in (1..5) \ {e} :
                /\ records[i].quality_flag = GOOD
                /\ records[i].value_1 = records[j].value_1
                /\ records[i].value_1 # records[e].value_1

----------------------------------------------------------------------------
(* CorrelationEngine: the daily table *)

\* The good records of metric m on date d among one participant's records.
C4_GoodReadings(d, m) ==
    LET counted(r) ==
            /\ r.quality_flag = GOOD
            /\ r.metric_type = m
            /\ r.datetime \div SlotsPerDay = d
    IN  SelectSeq(data["p1"], counted)

RECURSIVE C4_Total(_)
C4_Total(rs) == IF rs = <<>> THEN 0 ELSE Head(rs).value_1 + C4_Total(Tail(rs))

\* The value the daily table holds for (d, m); None when the table was
\* never built, has no row for d or no column for m, or holds NaN there.
C4_Cell(d, m) ==
    IF ~IsFrame(daily_df) THEN None
    ELSE IF d \notin SeqToSet(daily_df.index) \/ m \notin daily_df.columns THEN None
    ELSE CellOf(daily_df, d, m)

\* C4: once one participant's records are analysed, for every date and
\* metric the daily value is the sum of value_1 over exactly the good
\* records of that metric on that date when the metric is steps, and their
\* mean for every other metric; a (date, metric) without a good record has
\* no value (not 0). Values are kept times Scale.
C4_DailyAggregation ==
    pc \in {"analyzed", "analyze_raised"} =>
        \A d \in 0..(HistoryDays + 3), m \in MetricTypes :
            IF C4_GoodReadings(d, m) = <<>>
            THEN C4_Cell(d, m) = None
            ELSE /\ C4_Cell(d, m) # None
                 /\ m = "steps" =>
                        ValueOf(C4_Cell(d, m)) = Scale * C4_Total(C4_GoodReadings(d, m))
                 /\ m # "steps" =>
                        ValueOf(C4_Cell(d, m)) * Len(C4_GoodReadings(d, m))
                            = Scale * C4_Total(C4_GoodReadings(d, m))

\* Heart rates 60 and 80 flagged good and a step count flagged non-good on
\* the same date: the day's heart rate is 70 and it has no step count.
C4_Witness ==
    /\ pc = "analyzed"
    /\ \E d \in {1, 2} :
        /\ Len(C4_GoodReadings(d, "hr")) = 2
        /\ {C4_GoodReadings(d, "hr")[i].value_1 : i \in {1, 2}} = {60, 80}
        /\ C4_Cell(d, "hr") = Some(70 * Scale)
        /\ \E i \in 1..Len(data["p1"]) :
            /\ data["p1"][i].metric_type = "steps"
            /\ data["p1"][i].datetime \div SlotsPerDay = d
            /\ data["p1"][i].quality_flag # GOOD
        /\ C4_Cell(d, "steps") = None

----------------------------------------------------------------------------
(* CorrelationEngine: the minimum sample sizes *)

\* The number of dates of the table on which both metrics have a value.
C5_OverlappingDays(metric1, metric2) ==
    IF metric1 \notin daily_df.columns \/ metric2 \notin daily_df.columns THEN 0
    ELSE Cardinality({d \in SeqToSet(daily_df.index) :
             /\ daily_df.cell[d][metric1] # None
             /\ daily_df.cell[d][metric2] # None})

\* C5: _compute_daily_correlations raises nothing, and a pair with fewer
\* than 5 dates holding both metrics has no entry in the map it returns.
C5_DailyGate ==
    pc = "daily_correlations" =>
        /\ raised = NoException
        /\ \A i \in 1..Len(CORRELATION_PAIRS) :
            C5_OverlappingDays(CORRELATION_PAIRS[i][1], CORRELATION_PAIRS[i][2]) < 5
                => DailyKey(CORRELATION_PAIRS[i]) \notin DOMAIN results

\* steps and hr overlap on exactly 4 dates and get no entry, while steps
\* and sleep overlap on 5 and get one.
C5_Witness ==
    /\ pc = "daily_correlations"
    /\ C5_OverlappingDays("steps", "hr") = 4
    /\ DailyKey(<<"steps", "hr">>) \notin DOMAIN results
    /\ C5_OverlappingDays("steps", "sleep") = 5
    /\ DailyKey(<<"steps", "sleep">>) \in DOMAIN results

\* C6: on an engine built with default parameters,
\* _compute_rolling_correlations returns an empty map without raising for
\* every table of fewer than 14 + 5 rows.
C6_RollingGate ==
    (pc \in {"rolling_correlations", "rolling_raised"}
        /\ Len(daily_df.index) < 14 + 5)
        => raised = NoException /\ results = <<>>

----------------------------------------------------------------------------
(* CorrelationEngine: anomalies and recovery *)

\* The present values of column m of the table, in index order.
C7_Values(m) ==
    LET present(d) == daily_df.cell[d][m] # None
        dates == SelectSeq(daily_df.index, present)
    IN  [i \in 1..Len(dates) |-> daily_df.cell[dates[i]][m][1]]

C7_Reported(m, d) ==
    IF m \in DOMAIN results THEN d \in SeqToSet(results[m].anomaly_dates) ELSE FALSE

\* C7: for a metric with at least 7 present daily values, a date is among
\* the reported anomaly dates exactly when its value is strictly below
\* Q1 - 2.0*IQR or strictly above Q3 + 2.0*IQR (with Q1 = 10 and Q3 = 20,
\* 45 is reported, 35 and 40 are not); a metric with fewer than 7 present
\* values has no entry. Quartiles are kept times 4.
C7_AnomalyBounds ==
    pc = "anomalies" =>
        \A m \in daily_df.columns :
            LET values == C7_Values(m)
                Q1 == Quartile4(values, 1)
                Q3 == Quartile4(values, 3)
            IN  IF Len(values) < 7 THEN m \notin DOMAIN results
                ELSE \A d \in SeqToSet(daily_df.index) :
                        LET cell == daily_df.cell[d][m]
                        IN  /\ cell = None => ~C7_Reported(m, d)
                            /\ cell # None =>
                                /\ C7_Reported(m, d) <=>
                                       \/ 4 * cell[1] < Q1 - 2 * (Q3 - Q1)
                                       \/ 4 * cell[1] > Q3 + 2 * (Q3 - Q1)
                                /\ (Q1 = 40 /\ Q3 = 80) =>
                                       /\ cell[1] = 45 => C7_Reported(m, d)
                                       /\ cell[1] \in {35, 40} => ~C7_Reported(m, d)

\* Q1 = 10 and Q3 = 20 over at least 7 values: a day with 45 is reported,
\* a day with 40 is not.
C7_Witness ==
    /\ pc = "anomalies"
    /\ "hr" \in daily_df.columns
    /\ Len(C7_Values("hr")) >= 7
    /\ Quartile4(C7_Values("hr"), 1) = 40
    /\ Quartile4(C7_Values("hr"), 3) = 80
    /\ \E d, e \in SeqToSet(daily_df.index) :
        /\ daily_df.cell[d]["hr"] = Some(45)
        /\ C7_Reported("hr", d)
        /\ daily_df.cell[e]["hr"] = Some(40)
        /\ ~C7_Reported("hr", e)

\* The value of date e is present and within Q1 - 1.5*IQR and
\* Q3 + 1.5*IQR, the quartiles being given times 4.
C8_InBand(m, e, Q1, Q3) ==
    /\ daily_df.cell[e][m] # None
    /\ 2 * Q1 - 3 * (Q3 - Q1) <= 8 * daily_df.cell[e][m][1]
    /\ 8 * daily_df.cell[e][m][1] <= 2 * Q3 + 3 * (Q3 - Q1)

\* The anomaly on date d recovers at offset k: every date up to d + k has
\* a row, the value of d + k is in the band, and no earlier date after d
\* holds such a value.
C8_RecoversAt(m, d, k, Q1, Q3) ==
    /\ \A j \in 1..k : d + j \in SeqToSet(daily_df.index)
    /\ C8_InBand(m, d + k, Q1, Q3)
    /\ \A j \in 1..(k - 1) : ~C8_InBand(m, d + j, Q1, Q3)

\* The offsets of the reported anomalies of m that recover within 7 days,
\* in the order of the anomaly dates.
C8_OffsetsIn(m, Q1, Q3) ==
    LET recovers(d) == \E k \in 1..7 : C8_RecoversAt(m, d, k, Q1, Q3)
        dates == SelectSeq(results[m].anomaly_dates, recovers)
    IN  [i \in 1..Len(dates) |->
            CHOOSE k \in 1..7 : C8_RecoversAt(m, dates[i], k, Q1, Q3)]

C8_Offsets(m) ==
    C8_OffsetsIn(m, Quartile4(C7_Values(m), 1), Quartile4(C7_Values(m), 3))

RECURSIVE C8_Sum(_)
C8_Sum(offsets) == IF offsets = <<>> THEN 0 ELSE Head(offsets) + C8_Sum(Tail(offsets))

\* Ten times the median of a sorted, non-empty list of whole numbers.
C8_MedianTenths(sorted) ==
    IF Len(sorted) % 2 = 1 THEN 10 * sorted[(Len(sorted) + 1) \div 2]
    ELSE 5 * (sorted[Len(sorted) \div 2] + sorted[Len(sorted) \div 2 + 1])

\* C8: for every reported metric, recovery_rate is 100 * recovered / total
\* to the nearest tenth, mean and median recovery days are those of the
\* recovered anomalies only (3 anomalies with recoveries at offsets 2 and 5
\* give 66.7 and 3.5), and when none recovers mean and median are absent
\* and the rate is 0. Rates and days are kept in tenths.
C8_RecoveryStatistics ==
    pc = "anomalies" =>
        \A m \in DOMAIN results :
            LET total == Len(results[m].anomaly_dates)
                offsets == C8_Offsets(m)
                recovery == results[m].recovery_analysis
            IN  /\ total > 0
                /\ IF offsets = <<>>
                   THEN /\ recovery.mean_recovery_days = None
                        /\ recovery.median_recovery_days = None
                        /\ recovery.recovery_rate = 0
                   ELSE /\ 2 * Abs(recovery.recovery_rate * total
                                   - 1000 * Len(offsets)) <= total
                        /\ recovery.mean_recovery_days # None
                        /\ 2 * Abs(recovery.mean_recovery_days[1] * Len(offsets)
                                   - 10 * C8_Sum(offsets)) <= Len(offsets)
                        /\ recovery.median_recovery_days
                               = Some(C8_MedianTenths(SortValues(offsets)))
                /\ (total = 3 /\ SortValues(offsets) = <<2, 5>>) =>
                        /\ recovery.recovery_rate = 667
                        /\ recovery.mean_recovery_days = Some(35)

\* Three anomalies, two of which recover, at offsets 2 and 5.
C8_Witness ==
    /\ pc = "anomalies"
    /\ "hr" \in DOMAIN results
    /\ Len(results["hr"].anomaly_dates) = 3
    /\ SortValues(C8_Offsets("hr")) = <<2, 5>>
    /\ results["hr"].recovery_analysis.recovery_rate = 667
    /\ results["hr"].recovery_analysis.mean_recovery_days = Some(35)
    /\ results["hr"].recovery_analysis.median_recovery_days = Some(35)

----------------------------------------------------------------------------
(* CorrelationEngine.process *)

\* C9: an exception raised while one participant is analysed does not
\* leave process; the other participants are analysed and their results
\* returned.
C9_FailureIsIsolated ==
    Cardinality(DOMAIN data) >= 2 =>
        /\ pc # "process_raised"
        /\ pc = "process_returned" => raised = NoException

C10_NoGood(p) == \A i \in 1..Len(data[p]) : data[p][i].quality_flag # GOOD

\* What process ends with on a collection: whether an exception left it,
\* and the results it returned.
C10_Outcome(collection) ==
    IF \E q \in DOMAIN collection :
           _analyze_participant_correlations(engine, collection[q]).raised
               # NoException
    THEN [raised |-> TRUE, results |-> <<>>]
    ELSE [raised |-> FALSE,
          results |->
              [q \in {r \in DOMAIN collection :
                         _analyze_participant_correlations(engine, collection[r]).value
                             # <<>>} |->
                  _analyze_participant_correlations(engine, collection[q]).value]]

C10_SameAsWithout ==
    pc \in {"process_returned", "process_raised"} =>
        \A p \in DOMAIN data :
            C10_NoGood(p) =>
                [raised |-> raised # NoException, results |-> results]
                    = C10_Outcome([q \in DOMAIN data \ {p} |-> data[q]])

C10_SkippedWithoutRaising ==
    \A p \in Participants :
        (ProcessParticipant(p) /\ C10_NoGood(p)) =>
            /\ raised' = NoException
            /\ pc' = "process"
            /\ results' = results

\* C10: the turn of process for a participant without a good record
\* raises nothing and adds nothing to the results, and process ends as it
\* would on the collection without that participant.
C10_NoGoodParticipantIsSkipped ==
    [][C10_SkippedWithoutRaising]_vars /\ []C10_SameAsWithout

\* process has returned on a collection that holds a participant without a
\* good record beside one with a good record.
C10_Witness ==
    /\ pc = "process_returned"
    /\ \E p, q \in DOMAIN data :
        /\ C10_NoGood(p)
        /\ ~C10_NoGood(q)
        /\ p \notin DOMAIN results

----------------------------------------------------------------------------
(* CorrelationEngine: a pair without a finite coefficient *)

\* C11: the map _compute_daily_correlations or _compute_lag_correlations
\* returns has no entry for a pair whose coefficient is not finite (one of
\* its two series is constant).
C11_NonFiniteIsOmitted ==
    pc \in {"daily_correlations", "lag_correlations"} =>
        \A key \in DOMAIN results : results[key].defined

----------------------------------------------------------------------------
(* HealthDataCleaner.process: determinism and conservation *)

\* The records of the collection of the participant and metric of r, in
\* the order of the collection.
C12_Group(r) ==
    SelectSeq(data, LAMBDA q : q.participant_id = r.participant_id
                               /\ q.metric_type = r.metric_type)

\* The flag the five steps give record r within its group.
C12_FlagOf(r) ==
    LET cleaned == _clean_participant_metric_data(C12_Group(r), r.metric_type)
    IN  (CHOOSE q \in SeqToSet(cleaned) : q.id = r.id).quality_flag

\* C12: on a collection whose flags are all good, the final flag of every
\* record is a function of the collection alone: whatever the order in
\* which process iterates the metric types and the participants, each
\* record ends with the flag the five steps give it within the records of
\* its participant and metric.
C12_Deterministic ==
    (pc = "clean_returned"
        /\ \A i \in 1..Len(data) : data[i].quality_flag = GOOD)
        => \A i \in 1..Len(data) :
              /\ \E j \in 1..Len(results) : results[j].id = data[i].id
              /\ \A j \in 1..Len(results) :
                    results[j].id = data[i].id
                        => results[j].quality_flag = C12_FlagOf(data[i])

\* process has returned on a collection of two metrics; hr has two
\* participants, iterated against the order of the collection, and some
\* record ends flagged.
C12_Witness ==
    /\ pc = "clean_returned"
    /\ Cardinality(get_metric_types(data)) = 2
    /\ \E i, j \in 1..Len(results) :
        /\ i < j
        /\ results[i].id > results[j].id
        /\ results[i].metric_type = results[j].metric_type
        /\ results[i].participant_id # results[j].participant_id
    /\ results[1].metric_type # data[1].metric_type
    /\ \E k \in 1..Len(results) : results[k].quality_flag # GOOD

\* The number of records of the list with the participant and the metric.
C13_Count(rs, p, m) ==
    Cardinality({i \in 1..Len(rs) : rs[i].participant_id = p
                                     /\ rs[i].metric_type = m})

\* C13: the collection process returns holds exactly the records it was
\* given, each once and changed in its flag at most; every final flag is
\* one of the five; and for every metric the five counters of
\* cleaning_stats sum to total_records, the number of records of the
\* metric.
C13_Conservation ==
    pc = "clean_returned" =>
        /\ Len(results) = Len(data)
        /\ \A i \in 1..Len(data) :
              Cardinality({j \in 1..Len(results) :
                  WithFlag(results[j], GOOD) = WithFlag(data[i], GOOD)}) = 1
        /\ \A p \in CleanParticipantIds, m \in MetricTypes :
              C13_Count(results, p, m) = C13_Count(data, p, m)
        /\ \A j \in 1..Len(results) : results[j].quality_flag \in QualityFlags
        /\ DOMAIN cleaning_stats = get_metric_types(data)
        /\ \A m \in DOMAIN cleaning_stats :
              /\ cleaning_stats[m]["total_records"]
                     = Len(get_metric_data(data, m))
              /\ cleaning_stats[m][GOOD] + cleaning_stats[m][OUTLIER]
                     + cleaning_stats[m][INVALID] + cleaning_stats[m][MISSING]
                     + cleaning_stats[m][DUPLICATE]
                     = cleaning_stats[m]["total_records"]

\* process has returned on a collection of two metrics and two
\* participants whose hr records end good, outlier, invalid and duplicate.
C13_Witness ==
    /\ pc = "clean_returned"
    /\ Cardinality(get_metric_types(data)) = 2
    /\ Cardinality(ParticipantIds(data)) = 2
    /\ cleaning_stats["hr"][GOOD] > 0
    /\ cleaning_stats["hr"][INVALID] + cleaning_stats["hr"][OUTLIER]
           + cleaning_stats["hr"][DUPLICATE] > 0
    /\ cleaning_stats["hr"]["total_records"] > MinOutlierLen

----------------------------------------------------------------------------
(* CorrelationEngine: confidence labels and interpretations *)

\* The label for a sample of n days and a coefficient r (hundredths, or
\* nan), the four labels being given.
C14_Label(n, r, labels) ==
    LET magnitude == IF r = NaN THEN -1 ELSE Abs(ValueOf(r))
    IN  IF n >= 30 /\ magnitude >= 50 THEN labels[1]
        ELSE IF n >= 14 /\ magnitude >= 30 THEN labels[2]
        ELSE IF magnitude >= 20 THEN labels[3]
        ELSE labels[4]

\* C14 as stated: _get_confidence_level(n, r) is "solid" when n >= 30 and
\* |r| >= 0.5, otherwise "likely" when n >= 14 and |r| >= 0.3, otherwise
\* "tentative" when |r| >= 0.2, otherwise "low-confidence".
C14_StatedLabels ==
    pc = "confidence" =>
        results = <<C14_Label(data.n_days,
                        MaxAbs(data.pearson_r, data.spearman_r),
                        <<"solid", "likely", "tentative", "low-confidence">>)>>

\* C14: _get_confidence_level(n, r) is "solid" when n >= 30 and
\* |r| >= 0.5, otherwise "pretty sure" when n >= 14 and |r| >= 0.3,
\* otherwise "might be a thing" when |r| >= 0.2, otherwise "not confident"
\* (which a nan coefficient gets too).
C14_ConfidenceLabels ==
    pc = "confidence" =>
        results = <<C14_Label(data.n_days,
                        MaxAbs(data.pearson_r, data.spearman_r),
                        <<"solid", "pretty sure", "might be a thing",
                          "not confident">>)>>

\* 14 days and a coefficient of exactly 0.3 in magnitude: the second label.
C14_Witness ==
    /\ pc = "confidence"
    /\ data.n_days = 14
    /\ data.pearson_r = Some(-30)
    /\ data.spearman_r = Some(0)
    /\ results = <<"pretty sure">>

\* C15: on numbers, _interpret_correlation reads the coefficient of larger
\* magnitude, Pearson's when the two magnitudes tie, and that coefficient's
\* p-value; with p >= 0.05 the text is the no-significant-relationship
\* message, otherwise it is the strength (strong from 0.7, moderate from
\* 0.5, weak from 0.3, else very weak) followed by positive or negative
\* after the sign of the coefficient.
C15_Interpretation ==
    (pc = "interpretation"
        /\ data.pearson_r # NaN /\ data.pearson_p # NaN
        /\ data.spearman_r # NaN /\ data.spearman_p # NaN)
        => LET pearson == Abs(ValueOf(data.pearson_r))
                              >= Abs(ValueOf(data.spearman_r))
               r == IF pearson THEN ValueOf(data.pearson_r)
                    ELSE ValueOf(data.spearman_r)
               p == IF pearson THEN ValueOf(data.pearson_p)
                    ELSE ValueOf(data.spearman_p)
           IN  IF p >= 500
               THEN results = <<"No significant relationship detected">>
               ELSE /\ Len(results) = 4
                    /\ results[1] = (IF Abs(r) >= 70 THEN "Strong"
                                     ELSE IF Abs(r) >= 50 THEN "Moderate"
                                     ELSE IF Abs(r) >= 30 THEN "Weak"
                                     ELSE "Very weak")
                    /\ results[2] = " "
                    /\ r > 0 => results[3] = "positive"
                    /\ r < 0 => results[3] = "negative"
                    /\ results[4] = " correlation"

\* Spearman's coefficient is the larger and significant while Pearson's is
\* not: the text follows Spearman's.
C15_Witness ==
    /\ pc = "interpretation"
    /\ data.pearson_r = Some(69)
    /\ data.pearson_p = Some(500)
    /\ data.spearman_r = Some(-70)
    /\ data.spearman_p = Some(499)
    /\ results = <<"Strong", " ", "negative", " correlation">>

\* C16: no text of _interpret_lag_correlation says that the first metric
\* increases, decreases or has an effect on the second.
C16_NoCausalWording ==
    pc = "lag_interpretation" =>
        \A i \in 1..Len(results) :
            results[i] \notin {"increases", "decreases",
                               "No significant next-day effect of "}

----------------------------------------------------------------------------
(* HealthDataCleaner: the diastolic value of a blood-pressure record *)

\* C17: after _apply_validation_rules on bp records, every record that was
\* good and holds a diastolic value is flagged invalid when that value
\* lies outside [50, 130], and when the systolic value does not exceed it.
C17_DiastolicRule ==
    (pc = "validated" /\ metric_type = "bp") =>
        \A i \in 1..Len(records) :
            (/\ records[i].quality_flag # DUPLICATE
             /\ records[i].value_2 # None
             /\ \/ ValueOf(records[i].value_2) < 50
                \/ ValueOf(records[i].value_2) > 130
                \/ records[i].value_1 <= ValueOf(records[i].value_2))
                => records[i].quality_flag = INVALID

----------------------------------------------------------------------------
(* HealthDataCleaner: outliers of the secondary value *)

\* The records that are good when _detect_outliers starts, in its order.
C18_Good ==
    SelectSeq(_apply_validation_rules(SortByDatetime(_remove_duplicates(raw)),
                                      metric_type),
              LAMBDA r : r.quality_flag = GOOD)

\* The primary value of the i-th good record fails the test among the
\* primary values of the good records.
C18_Fails1(good, i) ==
    i \in _detect_outliers_in_series([j \in 1..Len(good) |-> good[j].value_1],
                                     OUTLIER_PARAMS[metric_type])

\* The secondary value of the i-th good record is present and fails the
\* test among the secondary values present on good records.
C18_Fails2(good, i) ==
    LET with_2 == SelectSeq(good, LAMBDA r : r.value_2 # None)
    IN  /\ good[i].value_2 # None
        /\ Cardinality({j \in 1..i : good[j].value_2 # None})
               \in _detect_outliers_in_series(
                       [j \in 1..Len(with_2) |-> ValueOf(with_2[j].value_2)],
                       OUTLIER_PARAMS[metric_type])

\* C18: _detect_outliers flags a good record only if its own primary value
\* fails among the good primary values or its own secondary value fails
\* among the good secondary values present, and it flags every record
\* whose own secondary value fails, also when some good records hold no
\* secondary value.
C18_OwnValuesOnly ==
    pc = "outliers_flagged" =>
        \A i \in 1..Len(C18_Good) : \A k \in 1..Len(records) :
            records[k].id = C18_Good[i].id =>
                /\ records[k].quality_flag = OUTLIER
                       => C18_Fails1(C18_Good, i) \/ C18_Fails2(C18_Good, i)
                /\ C18_Fails2(C18_Good, i) => records[k].quality_flag = OUTLIER

----------------------------------------------------------------------------
(* HealthDataCleaner: the records an outlier pass counts *)

\* The list _detect_outliers is handed.
C19_Validated ==
    _apply_validation_rules(SortByDatetime(_remove_duplicates(raw)), metric_type)

\* What _detect_outliers leaves of the list validated, whose good records
\* are good and of which an outlier pass on good alone flags ids.
C19_Flagged(validated, good, ids) ==
    /\ Len(records) = Len(validated)
    /\ Len(good) < 5 => records = validated
    /\ \A k \in 1..Len(records) :
          records[k] =
              IF validated[k].quality_flag = GOOD /\ validated[k].id \in ids
              THEN WithFlag(validated[k], OUTLIER)
              ELSE validated[k]

\* The records of the list that are still good, the others taken out.
C19_Good(validated) == SelectSeq(validated, LAMBDA r : r.quality_flag = GOOD)

C19_FlaggedFromGood(validated, good) ==
    C19_Flagged(validated, good, OutlierIds(good, metric_type))

\* C19: when fewer than 5 records are still good after the duplicate and
\* range steps, _detect_outliers flags none; otherwise it flags what it
\* would flag on the good records alone, so that the records flagged
\* duplicate or invalid neither count towards the 5 nor enter the
\* statistics, and they keep their flags.
C19_GoodRecordsOnly ==
    pc = "outliers_flagged" =>
        C19_FlaggedFromGood(C19_Validated, C19_Good(C19_Validated))

\* Six records of which one is a duplicate and one invalid: the four good
\* ones include a far value, and none is flagged outlier.
C19_Witness ==
    /\ pc = "outliers_flagged"
    /\ Len(records) = 6
    /\ Cardinality({k \in 1..6 : records[k].quality_flag = GOOD}) = 4
    /\ \E k \in 1..6 : records[k].quality_flag = DUPLICATE
    /\ \E k \in 1..6 : records[k].quality_flag = INVALID
    /\ \E k \in 1..6 : /\ records[k].quality_flag = GOOD
                       /\ records[k].value_1 = ClusterValues[metric_type].far
    /\ \A k, l \in 1..6 :
          (records[k].quality_flag = GOOD /\ records[l].quality_flag = GOOD)
              => (records[k].value_1 = ClusterValues[metric_type].far
                     => k = l \/ records[l].value_1 < records[k].value_1 - 1)

----------------------------------------------------------------------------
(* HealthDataCleaner: how often a flag changes *)

\* The flag of the record with the id in the list.
C20_FlagOf(rs, id) == (CHOOSE r \in SeqToSet(rs) : r.id = id).quality_flag

\* A step of the pipeline changes the flag of a record only if the record
\* is still good, and makes it missing only if its primary value is
\* absent.
C20_Step ==
    \A k \in 1..Len(records) :
        C20_FlagOf(records', records[k].id) # records[k].quality_flag
            => /\ records[k].quality_flag = GOOD
               /\ C20_FlagOf(records', records[k].id) = MISSING
                      => records[k].value_1 = NAN_FLOAT

\* C20: over the five steps of _clean_participant_metric_data the flag of
\* a record changes at most once: a record flagged duplicate, invalid or
\* outlier keeps that flag to the end, and the missing-value step
\* reclassifies only records without a primary value that are not flagged
\* invalid.
C20_FlagChangesOnce == [][C20_Step]_vars

----------------------------------------------------------------------------
(* CorrelationEngine: the rows of the daily table *)

\* The dates on which the participant has a good record.
C21_Dates ==
    {data["p1"][i].datetime \div SlotsPerDay :
        i \in {j \in 1..Len(data["p1"]) : data["p1"][j].quality_flag = GOOD}}

\* C21: the daily table built from one participant's good records has one
\* row for every date on which a good record exists and for no other
\* date, no date twice, and its rows in strictly ascending date order,
\* whatever the order of the records.
C21_OneRowPerDate ==
    (IsFrame(daily_df) /\ daily_df # EmptyFrame) =>
        /\ SeqToSet(daily_df.index) = C21_Dates
        /\ \A i, j \in 1..Len(daily_df.index) :
              i < j => daily_df.index[i] < daily_df.index[j]

\* A good record of date 2 precedes a good record of date 1 in the list,
\* and two good records share a date: the table has the rows 1 and 2.
C21_Witness ==
    /\ pc = "analyzed"
    /\ IsFrame(daily_df)
    /\ daily_df.index = <<1, 2>>
    /\ Len(data["p1"]) = 3
    /\ \A i \in 1..3 : data["p1"][i].quality_flag = GOOD
    /\ data["p1"][1].datetime \div SlotsPerDay = 2
    /\ data["p1"][2].datetime \div SlotsPerDay = 1
    /\ data["p1"][3].datetime \div SlotsPerDay = 2

----------------------------------------------------------------------------
(* CorrelationEngine: the sample a same-day pair needs *)

\* The dates of the daily table on which both metrics of the pair have a
\* value.
C22_Days(pair) ==
    IF pair[1] \notin daily_df.columns \/ pair[2] \notin daily_df.columns THEN {}
    ELSE {d \in SeqToSet(daily_df.index) :
             /\ daily_df.cell[d][pair[1]] # None
             /\ daily_df.cell[d][pair[2]] # None}

\* C22: once _analyze_participant_correlations has ended on the records of
\* a participant, every pair with at least 5 dates on which both metrics
\* are present has an entry in daily_correlations, also when the
\* participant has only 5 or 6 days of data.
C22_FiveDaysSuffice ==
    (pc \in {"analyzed", "analyze_raised"} /\ IsFrame(daily_df)
        /\ daily_df # EmptyFrame /\ Len(daily_df.index) <= 6) =>
        \A i \in 1..Len(CORRELATION_PAIRS) :
            Cardinality(C22_Days(CORRELATION_PAIRS[i])) >= 5
                => /\ raised = NoException
                   /\ results # <<>>
                   /\ DailyKey(CORRELATION_PAIRS[i])
                          \in DOMAIN results.daily_correlations

----------------------------------------------------------------------------
(* CorrelationEngine: the samples of a next-day pair *)

\* The dates d of the table with the first metric on d and the second on
\* the calendar day d + 1.
C23_NextDayPairs(pair) ==
    {d \in SeqToSet(daily_df.index) :
        /\ daily_df.cell[d][pair[1]] # None
        /\ d + 1 \in SeqToSet(daily_df.index)
        /\ daily_df.cell[d + 1][pair[2]] # None}

\* C23: every sample of a next-day pair joins the first metric on a day d
\* with the second metric on the calendar day d + 1, so that a day whose
\* next calendar day has no row gives no sample: the pair has an entry
\* only with 5 such samples, and n_days is their number.
C23_CalendarNextDay ==
    pc = "lag_correlations" =>
        \A i \in 1..Len(CORRELATION_PAIRS) :
            LagKey(CORRELATION_PAIRS[i]) \in DOMAIN results
                => results[LagKey(CORRELATION_PAIRS[i])].n_days
                       = Cardinality(C23_NextDayPairs(CORRELATION_PAIRS[i]))

----------------------------------------------------------------------------
(* C24 *)

\* The rows of the window at position k that hold both metrics of the pair.
C24_ValidRows(pair, window, k) ==
    {j \in WindowRows(window, window + k - 1) :
        /\ daily_df.cell[daily_df.index[j]][pair[1]] # None
        /\ daily_df.cell[daily_df.index[j]][pair[2]] # None}

\* The coefficient of exactly these rows, in date order; a coefficient that
\* is not defined (a constant series) is not a number and shows as a gap.
C24_PearsonOfRows(pair, rows) ==
    LET order == SortedSeqOf(rows)
        v1 == [i \in 1..Len(order) |->
                  ValueOf(daily_df.cell[daily_df.index[order[i]]][pair[1]])]
        v2 == [i \in 1..Len(order) |->
                  ValueOf(daily_df.cell[daily_df.index[order[i]]][pair[2]])]
    IN  IF (\A i \in 1..Len(order) : v1[i] = v1[1])
           \/ (\A i \in 1..Len(order) : v2[i] = v2[1])
        THEN Gap
        ELSE Some(<<v1, v2>>)

C24_Value(pair, window, k) ==
    IF Cardinality(C24_ValidRows(pair, window, k)) < 7 THEN Gap
    ELSE C24_PearsonOfRows(pair, C24_ValidRows(pair, window, k))

C24_Series(pair, window, positions) ==
    [k \in 1..positions |-> C24_Value(pair, window, k)]

C24_NonGaps(series) ==
    LET kept == {k \in 1..Len(series) : series[k] # Gap}
        order == SortedSeqOf(kept)
    IN  [i \in 1..Len(order) |-> series[order[i]]]

C24_EntryIs(pair, series) ==
    IF \A k \in 1..Len(series) : series[k] = Gap
    THEN DailyKey(pair) \notin DOMAIN results
    ELSE /\ DailyKey(pair) \in DOMAIN results
         /\ results[DailyKey(pair)].correlations = series
         /\ results[DailyKey(pair)].mean_over = C24_NonGaps(series)
         /\ results[DailyKey(pair)].std_over = C24_NonGaps(series)

----------------------------------------------------------------------------
(* C25 *)

\* The values of the list that are not gaps, in list order.
C25_Values ==
    LET kept == SortedSeqOf({i \in DOMAIN data : data[i] # Gap})
    IN  [k \in 1..Len(kept) |-> data[kept[k]][1]]

\* The least-squares slope of y over the positions 0 .. n - 1 is
\* 6 * C25_Weighted(y) / C25_Norm(n), in thousandths.
C25_Weighted(y) ==
    SumSeq([k \in 1..Len(y) |-> (2 * (k - 1) - Len(y) + 1) * y[k]])

C25_Norm(n) == n * (n * n - 1)

\* C25: _analyze_correlation_trend gives no label taken from a slope when
\* fewer than 3 values of the list are not gaps; otherwise the label is
\* "strengthening" exactly when the slope is above 0.005, "weakening"
\* exactly when it is below -0.005, and "stable" for every slope from
\* -0.005 to 0.005, both ends included.
C25_TrendLabel ==
    pc = "trend" =>
        IF Len(C25_Values) < 3
        THEN results.trend \notin {"strengthening", "weakening", "stable"}
        ELSE /\ results.trend = "strengthening" <=>
                    6 * C25_Weighted(C25_Values) > 5 * C25_Norm(Len(C25_Values))
             /\ results.trend = "weakening" <=>
                    6 * C25_Weighted(C25_Values) < -5 * C25_Norm(Len(C25_Values))
             /\ results.trend = "stable" <=>
                    /\ 6 * C25_Weighted(C25_Values) <= 5 * C25_Norm(Len(C25_Values))
                    /\ 6 * C25_Weighted(C25_Values) >= -5 * C25_Norm(Len(C25_Values))

\* A list with a gap whose three values rise by exactly 0.005 a position.
C25_Witness ==
    /\ pc = "trend"
    /\ Len(C25_Values) >= 3
    /\ Len(C25_Values) < Len(data)
    /\ 6 * C25_Weighted(C25_Values) = 5 * C25_Norm(Len(C25_Values))
    /\ results.trend = "stable"
    /\ results.slope = 50

----------------------------------------------------------------------------
(* C26 *)

\* The metric has a value on the calendar day e, and the value lies in
\* [Q1 - 1.5 * IQR, Q3 + 1.5 * IQR]; Q1 and Q3 are the quartiles times 4.
C26_ValueInBand(m, e, Q1, Q3) ==
    /\ e \in SeqToSet(daily_df.index)
    /\ daily_df.cell[e][m] # None
    /\ 2 * Q1 - 3 * (Q3 - Q1) <= 8 * daily_df.cell[e][m][1]
    /\ 8 * daily_df.cell[e][m][1] <= 2 * Q3 + 3 * (Q3 - Q1)

\* The smallest offsets k in 1..7 with such a value on day d + k, for the
\* reported anomaly dates d that have one, in the order of the dates.
C26_OffsetsIn(m, Q1, Q3) ==
    LET recovers(d) == \E k \in 1..7 : C26_ValueInBand(m, d + k, Q1, Q3)
        dates == SelectSeq(results[m].anomaly_dates, recovers)
    IN  [i \in 1..Len(dates) |->
            CHOOSE k \in 1..7 :
                /\ C26_ValueInBand(m, dates[i] + k, Q1, Q3)
                /\ \A j \in 1..(k - 1) : ~C26_ValueInBand(m, dates[i] + j, Q1, Q3)]

C26_Offsets(m) ==
    C26_OffsetsIn(m, Quartile4(C7_Values(m), 1), Quartile4(C7_Values(m), 3))

\* C26: an anomaly on date d counts as recovered, with offset k, for the
\* smallest k in 1..7 such that the metric has a value within
\* [Q1 - 1.5 * IQR, Q3 + 1.5 * IQR] on calendar day d + k; a day without a
\* value, be it a row without the metric or no row at all, is passed
\* over, and the anomaly is unrecovered only when there is no such k. The
\* reported rate and mean are those of these offsets, in tenths.
C26_SkipsDaysWithoutValue ==
    pc = "anomalies" =>
        \A m \in DOMAIN results :
            LET total == Len(results[m].anomaly_dates)
                offsets == C26_Offsets(m)
                recovery == results[m].recovery_analysis
            IN  IF offsets = <<>>
                THEN /\ recovery.mean_recovery_days = None
                     /\ recovery.recovery_rate = 0
                ELSE /\ 2 * Abs(recovery.recovery_rate * total
                                - 1000 * Len(offsets)) <= total
                     /\ recovery.mean_recovery_days # None
                     /\ 2 * Abs(recovery.mean_recovery_days[1] * Len(offsets)
                                - 10 * SumSeq(offsets)) <= Len(offsets)

----------------------------------------------------------------------------
(* C27 *)

\* The records of participant p and metric m in a collection, in the order
\* of the collection.
C27_Group(collection, p, m) ==
    SelectSeq(collection, LAMBDA r : r.participant_id = p /\ r.metric_type = m)

\* The flag a returned collection holds for the record.
C27_FlagIn(cleaned, r) ==
    (CHOOSE q \in SeqToSet(cleaned) : q.id = r.id).quality_flag

\* C27: the flags process gives the records of one participant and metric
\* depend on that participant's records of that metric alone: on two
\* collections that hold the same records for the participant and the
\* metric, a record of another participant or metric being added, left
\* out or changed, the two calls give these records the same flags.
C27_OwnGroupOnly ==
    pc = "cleaned_again" =>
        \A p \in CleanParticipantIds, m \in CleanMetrics :
            C27_Group(data, p, m) = C27_Group(raw, p, m) =>
                \A k \in 1..Len(C27_Group(data, p, m)) :
                    C27_FlagIn(results, C27_Group(data, p, m)[k])
                        = C27_FlagIn(records, C27_Group(data, p, m)[k])

\* Both calls have returned; the hr records of p1 are the same in both
\* collections and hold a flagged record, and the second collection holds
\* a flagged hr record of p2 that the first does not.
C27_Witness ==
    /\ pc = "cleaned_again"
    /\ C27_Group(data, "p1", "hr") = C27_Group(raw, "p1", "hr")
    /\ \E k \in 1..Len(C27_Group(data, "p1", "hr")) :
        /\ C27_FlagIn(results, C27_Group(data, "p1", "hr")[k]) # GOOD
        /\ C27_FlagIn(records, C27_Group(data, "p1", "hr")[k]) # GOOD
    /\ C27_Group(data, "p2", "hr") = <<>>
    /\ \E j \in 1..Len(records) :
        /\ records[j].participant_id = "p2"
        /\ records[j].metric_type = "hr"
        /\ records[j].quality_flag # GOOD

----------------------------------------------------------------------------
(* C28 *)

\* The flag the second call left on the record with this id.
C28_SecondFlag(id) ==
    (CHOOSE q \in SeqToSet(records) : q.id = id).quality_flag

\* C28: a second call of process on the collection the first call
\* returned leaves every flag as the first call set it; in particular no
\* record that was good after the first call is an outlier after the
\* second.
C28_SecondRunKeepsFlags ==
    pc = "cleaned_again" =>
        \A i \in 1..Len(results) :
            /\ C28_SecondFlag(results[i].id) = results[i].quality_flag
            /\ results[i].quality_flag = GOOD
                   => C28_SecondFlag(results[i].id) # OUTLIER

----------------------------------------------------------------------------
(* C29 *)

\* The rows of the last window whose coefficient an entry holds, taken from
\* the sample the coefficient stands for: the rows whose steps value it
\* holds.
C29_LastSampleHoldsRow(entry, row) ==
    LET last == entry.correlations[Len(entry.correlations)]
    IN  last # Gap =>
            \E k \in 1..Len(last[1][1]) :
                last[1][1][k] = daily_df.cell[daily_df.index[row]]["steps"][1]

\* C29: over N >= window + 5 rows _compute_rolling_correlations evaluates
\* a window position ending at every row from the window-th to the last,
\* N - window + 1 positions in all, so that the latest day lies in the
\* final window.
C29_WindowEndsAtEveryRow ==
    (/\ pc = "rolling_correlations"
     /\ Len(daily_df.index) >= engine.rolling_window + 5) =>
        \A key \in DOMAIN results :
            /\ Len(results[key].correlations)
                   = Len(daily_df.index) - engine.rolling_window + 1
            /\ key = DailyKey(<<"steps", "hr">>) =>
                   C29_LastSampleHoldsRow(results[key], Len(daily_df.index))

----------------------------------------------------------------------------
(* C30 *)

\* The offset the scan of _analyze_recovery_patterns gives the anomaly on
\* date d of metric m, None when it does not recover.
C30_Offset(m, d) ==
    RecoveryOffset(daily_df, m, QuartileBand(ColumnValues(daily_df, m)), d, 1)

\* C30: for every reported metric, no day on which an anomaly recovers is
\* itself an anomaly date of the metric, every recovery offset lies in
\* 1..7, an anomaly gives at most one offset, so that there are no more
\* recoveries than anomalies, and recovery_rate lies between 0 and 100.
\* The rate is kept in tenths.
C30_RecoveryIsConsistent ==
    pc = "anomalies" =>
        \A m \in DOMAIN results :
            /\ \A i \in 1..Len(results[m].anomaly_dates) :
                C30_Offset(m, results[m].anomaly_dates[i]) # None =>
                    /\ C30_Offset(m, results[m].anomaly_dates[i])[1] \in 1..7
                    /\ \A j \in 1..Len(results[m].anomaly_dates) :
                          results[m].anomaly_dates[j]
                              # results[m].anomaly_dates[i]
                                  + C30_Offset(m, results[m].anomaly_dates[i])[1]
            /\ Len(RecoveryTimes(daily_df, m, results[m].anomaly_dates))
                   <= Len(results[m].anomaly_dates)
            /\ results[m].recovery_analysis.recovery_rate >= 0
            /\ results[m].recovery_analysis.recovery_rate <= 1000

\* Several anomalies of hr, one that recovers after a later anomaly and a
\* day without a value, and one that does not recover.
C30_Witness ==
    /\ pc = "anomalies"
    /\ "hr" \in DOMAIN results
    /\ Len(results["hr"].anomaly_dates) >= 3
    /\ \E i \in 1..Len(results["hr"].anomaly_dates) :
        /\ C30_Offset("hr", results["hr"].anomaly_dates[i]) # None
        /\ C30_Offset("hr", results["hr"].anomaly_dates[i])[1] >= 3
    /\ \E i \in 1..Len(results["hr"].anomaly_dates) :
        C30_Offset("hr", results["hr"].anomaly_dates[i]) = None
    /\ results["hr"].recovery_analysis.recovery_rate > 0
    /\ results["hr"].recovery_analysis.recovery_rate < 1000

====
